---- MODULE Spec2Model ----
(***************************************************************************)
(* Verification model of the OpenClaw session-lifecycle integration core:  *)
(*   - the SK-Sync wake-parent-on-end tracker, spawn tool and lifecycle    *)
(*     hooks (extensions/sk-sync),                                         *)
(*   - the Super-Kanban transcript exporter's spool engine                 *)
(*     (extensions/super-kanban-exporter/src/service.ts).                  *)
(* Each component has its own next-state relation and specification; the   *)
(* variables of the other components keep their initial values.            *)
(*                                                                         *)
(* Granularity: JavaScript runs one callback at a time, so every action is *)
(* the synchronous code between two awaits.  An awaited HTTP call or file  *)
(* operation is in flight between the action that issues it and the action *)
(* that continues after it.                                                *)
(***************************************************************************)
EXTENDS Integers, Sequences, FiniteSets, TLC

\* JavaScript null / undefined and an absent map entry.
Null == "null"
Undefined == "undefined"

\* A JavaScript Map is a function whose domain is the set of keys present.
MapSet(m, k, v) == [x \in DOMAIN m \cup {k} |-> IF x = k THEN v ELSE m[x]]
MapDelete(m, k) == [x \in DOMAIN m \ {k} |-> m[x]]
EmptyMap == [x \in {} |-> Null]

(***************************************************************************)
(* State                                                                   *)
(***************************************************************************)

\* SK-Sync: wake-parent-on-end tracker
VARIABLES
  entriesByRunId,   \* Map<runId, WakeParentOnEndEntry>
  spawnedRuns,      \* runIds the session runtime has already handed out
  wakeCalls,        \* every parent-wake RPC issued so far, in order
  wakePending,      \* indexes of wakeCalls whose promise has not settled
  wakeWarnings,     \* number of logger.warn calls for failed wake RPCs
  endedCalls,       \* per runId: handleSubagentEnded invocations so far
  endedWhileInFlight, \* runIds for which an invocation arrived during a wake RPC
  endedByChildKey,  \* tracked runIds whose end was reported by childSessionKey alone
  wakeFailed,       \* the wake RPCs (by position in wakeCalls) that were rejected
  endedAfterFailedWake \* runIds whose end was reported again after their wake failed

wakeVars == <<entriesByRunId, spawnedRuns, wakeCalls, wakePending, wakeWarnings, wakeFailed,
              endedCalls, endedWhileInFlight, endedByChildKey, endedAfterFailedWake>>

\* SK-Sync: Super-Kanban as the controller sees it, and one spawn tool invocation
VARIABLES
  skSessions,       \* SK: sessionKey -> [entityType, state] (absent: resolve gives 404)
  taskLock,         \* SK: owner of the task lock, or Null
  taskStatus,       \* SK: status of the task
  skCalls,          \* every outbound call of the controller, in the order issued
  requesterSessionKeyByChild, \* Map<childSessionKey, requesterSessionKey>
  spawnPc,          \* where the spawn tool invocation is
  spawnArgs,        \* its arguments and the caller's ctx.sessionKey
  spawnLocal,       \* its local variables (existingSessionKey, spawnRes)
  spawnResult,      \* what the invocation returned or threw
  lockResponse      \* how SK answered the invocation's lockTask

skVars == <<skSessions, taskLock, taskStatus, skCalls, requesterSessionKeyByChild>>
spawnVars == <<spawnPc, spawnArgs, spawnLocal, spawnResult, lockResponse>>

\* SK-Sync: lifecycle hooks
VARIABLES
  hooks,            \* the hook invocations in progress: slot -> its locals
  hooksStarted,     \* hook invocations started so far
  lastHook,         \* the latest hook event: kind, session, slot, session tracked or not
  hookWarnings,     \* "hook failed" warnings logged by the hooks' catch
  sessionEnds       \* SK: per sessionKey, the SESSION_ENDED events on its timeline

hookVars == <<hooks, hooksStarted, lastHook, hookWarnings, sessionEnds>>

skSyncVars == <<wakeVars, skVars, spawnVars, hookVars>>

\* Super-Kanban exporter service (createSuperKanbanExporterService)
VARIABLES
  transcriptLines,  \* complete lines in the session's transcript file (1 byte each)
  notExported,      \* lines the tailer skipped by design (first discovery, unbound)
  meta,             \* the in-memory MetaFileV1
  metaOpen,         \* FALSE once stop() has set meta = null
  metaDisk,         \* meta.json as last written
  pending,          \* the pending SpoolEvent[] (events named by their line number)
  flushTimer,       \* the debounce timer is armed
  spool,            \* spool.jsonl (1 byte per event line)
  appendLog,        \* the events appended to spool.jsonl so far, by first append
  stopped,          \* the stopped flag
  clockPast,        \* Date.now() has passed meta.nextSendAtMs
  scans,            \* scanAndEnqueue invocations in progress: slot -> locals
  ticks,            \* sender ticks in progress: slot -> locals
  timerFlush,       \* the maybeFlush started by the debounce timer
  stopFlush,        \* stop(): where it is, and the batch its maybeFlush took
  attachesOk,       \* Attach posts SK has answered with 2xx
  postLog,          \* the events whose message was posted, by first post
  unattachedPosts,  \* events posted before any Attach for the session succeeded
  sentOk,           \* events whose message post succeeded
  truncLost,        \* unsent events a drain truncation discarded
  sessionBound,     \* sessions.json gives the session an SK routing label
  unboundLines,     \* lines a scan read and left out because the session is unbound
  failureLost,      \* a failed send was not recorded in meta and meta.json
  presentAtDiscovery \* the lines the file held when its first-discovery stat settled

\* The exporter's variables that only the tailer's binding branch and the
\* sender's catch touch.
exporterRest == <<sessionBound, unboundLines, failureLost, presentAtDiscovery>>

exporterVars == <<transcriptLines, notExported, meta, metaOpen, metaDisk, pending,
                  flushTimer, spool, appendLog, stopped, clockPast, scans, ticks,
                  timerFlush, stopFlush, attachesOk, postLog, unattachedPosts, sentOk,
                  truncLost, exporterRest>>

\* Gateway WebSocket connection: the backpressure-guarded send of one socket
VARIABLES
  wsBufferedAmount, \* socket.bufferedAmount
  wsClosed,         \* the connection's closed flag (close() has run)
  wsCloseCause,     \* the phase recorded with closeCause "ws-backpressure", or Null
  wsSends,          \* calls of socket.send so far
  wsLast,           \* the last guarded send: what it saw and what it did
  closeCause,       \* the connection's closeCause, Null while undefined
  closeMeta,        \* the connection's closeMeta
  client,           \* the connection's client record, Null before setClient
  clients,          \* the shared set of clients of all connections
  handshakeTimer,   \* "unset", "armed", "fired" or "cleared"
  handshakeState,   \* "pending", "connected" or "failed"
  socketCloseCalls, \* calls of socket.close so far
  causeCalls        \* the setCloseCause calls so far: the first cause, the causes
                    \* of later calls, the last meta

wsConnVars ==
  <<closeCause, closeMeta, client, clients, handshakeTimer, handshakeState,
    socketCloseCalls, causeCalls>>
wsVars == <<wsBufferedAmount, wsClosed, wsCloseCause, wsSends, wsLast, wsConnVars>>

\* Telegram voice-send deduper (shouldDedupeTelegramVoiceSend)
VARIABLES
  voiceDedupeByChat, \* Map<chatKey, {lru}> in insertion order: <<[key, lru]>>
  dedupeNow,         \* Date.now()
  dedupeLast,        \* the last shouldDedupe call and what it returned
  dedupePrev,        \* the call before it
  dedupeEvicted,     \* which maps have evicted an entry so far ("chat", "fp")
  dedupeRecorded     \* the followed voice: when it was last recorded with
                     \* ts = now, and whether a duplicate hit came after

dedupeVars ==
  <<voiceDedupeByChat, dedupeNow, dedupeLast, dedupePrev, dedupeEvicted,
    dedupeRecorded>>

\* Gateway readiness (readiness.ts)
VARIABLES
  readiness,        \* the GatewayReadinessSnapshot [phase, since, phases]
  readinessNow      \* Date.now()

readinessVars == <<readiness, readinessNow>>

\* Super-Kanban reconciler (reconcileSuperKanban), one run
VARIABLES
  recMode,          \* params.mode
  recPc,            \* where the run is
  recFile,          \* transcript files taken from the listing so far
  recLine,          \* transcript lines read so far in the run
  recAttached,      \* reconcileOneSession's `attached` flag
  recPending,       \* the event whose posts are awaited
  recCounts,        \* the current session report's counts
  recReport,        \* the ReconcileReport's counters
  recHttp,          \* every POST issued, in order, with the session it is for
  recSeen           \* what the transcripts of the matched sessions held

reconcilerVars == <<recMode, recPc, recFile, recLine, recAttached, recPending,
                    recCounts, recReport, recHttp, recSeen>>

\* Hashed-label resolution of the reconciler (resolveSessionBinding)
VARIABLES
  labelMapFile,     \* the items of label-map.json
  lastBinding       \* the last SK:TASKH label resolved and what it resolved to

labelMapVars == <<labelMapFile, lastBinding>>

\* External-id canonicalization called on its own
VARIABLES
  canonCall         \* the last canonicalizeWorkItemExternalId call and its outcome

canonVars == <<canonCall>>

\* Telegram delivery context (AsyncLocalStorage of one async call chain)
VARIABLES
  alsStack,         \* the stores bound by the enclosing run() calls, innermost last
  uuidCount,        \* ids handed out by newTelegramDeliveryId so far
  lastWith          \* the argument of the withTelegramDeliveryContext call just made

deliveryVars == <<alsStack, uuidCount, lastWith>>

\* Exporter tailer: one transcript file read byte by byte
VARIABLES
  tailFile,         \* the bytes of the transcript
  tailCursor,       \* meta.fileCursors[absPath].offset
  tailLines         \* the lines readAppendedJsonlLines has returned, in order

tailVars == <<tailFile, tailCursor, tailLines>>

\* The components added after the reconciler.
furtherVars == <<labelMapVars, canonVars, deliveryVars, tailVars>>

\* The components that share no state with SK-Sync or the exporter.
standaloneVars == <<wsVars, dedupeVars, readinessVars, reconcilerVars, furtherVars>>

vars == <<skSyncVars, exporterVars, standaloneVars>>

\* What the actions of one component leave alone.
outsideTracker == <<skVars, spawnVars, hookVars, exporterVars, standaloneVars>>
outsideSpawnTool == <<hookVars, exporterVars, standaloneVars>>
outsideSkSync == <<exporterVars, standaloneVars>>
outsideExporter == <<skSyncVars, standaloneVars>>
outsideWs ==
  <<skSyncVars, exporterVars, dedupeVars, readinessVars, reconcilerVars, furtherVars>>
outsideDedupe ==
  <<skSyncVars, exporterVars, wsVars, readinessVars, reconcilerVars, furtherVars>>
outsideReadiness ==
  <<skSyncVars, exporterVars, wsVars, dedupeVars, reconcilerVars, furtherVars>>
outsideReconciler ==
  <<skSyncVars, exporterVars, wsVars, dedupeVars, readinessVars, furtherVars>>
outsideLabelMap ==
  <<skSyncVars, exporterVars, wsVars, dedupeVars, readinessVars, reconcilerVars,
    canonVars, deliveryVars, tailVars>>
outsideCanon ==
  <<skSyncVars, exporterVars, wsVars, dedupeVars, readinessVars, reconcilerVars,
    labelMapVars, deliveryVars, tailVars>>
outsideDelivery ==
  <<skSyncVars, exporterVars, wsVars, dedupeVars, readinessVars, reconcilerVars,
    labelMapVars, canonVars, tailVars>>
outsideTail ==
  <<skSyncVars, exporterVars, wsVars, dedupeVars, readinessVars, reconcilerVars,
    labelMapVars, canonVars, deliveryVars>>

(***************************************************************************)
(* SK-Sync: wake-parent-on-end tracker (createWakeParentOnEndTracker)      *)
(***************************************************************************)

RunIds == {"run-1", "run-2"}
ParentSessionKeys == {"parent-1"}
ChildSessionKeyOf(r) == IF r = "run-1" THEN "child-1" ELSE "child-2"
Outcomes == {"ok", "timeout", "killed", Undefined}

\* Handler invocations per runId explored by the model.
MaxEndedCalls == 3

\* wakeParentOnEnd as passed by the caller: true, false or left out.
WakeFlags == {"true", "false", Undefined}

resolveWakeParentOnEnd(value) == value # "false"

mapOutcomeToSessionState(outcome) ==
  IF outcome = "ok" THEN "DONE"
  ELSE IF outcome = "timeout" THEN "FAILED"
  ELSE IF outcome = "error" THEN "FAILED"
  ELSE IF outcome \in {"killed", "reset", "deleted"} THEN "CANCELLED"
  ELSE "FAILED"

mapOutcomeToTaskStatus(outcome) ==
  IF outcome = "ok" THEN [state |-> "DONE", task |-> "DONE"]
  ELSE IF outcome = "timeout" THEN [state |-> "FAILED", task |-> "BLOCKED"]
  ELSE IF outcome = "error" THEN [state |-> "FAILED", task |-> "BLOCKED"]
  ELSE IF outcome \in {"killed", "reset", "deleted"}
    THEN [state |-> "CANCELLED", task |-> "CANCELLED"]
  ELSE [state |-> "FAILED", task |-> "BLOCKED"]

WakeInit ==
  /\ entriesByRunId = EmptyMap
  /\ spawnedRuns = {}
  /\ wakeCalls = <<>>
  /\ wakePending = {}
  /\ wakeWarnings = 0
  /\ endedCalls = [r \in RunIds |-> 0]
  /\ endedWhileInFlight = {}
  /\ endedByChildKey = {}
  /\ wakeFailed = {}
  /\ endedAfterFailedWake = {}

\* trackSpawn's effect on the map: nothing unless the wake is enabled and both
\* the runId and the parent session key are present.
EntriesAfterTrack(entries, runId, parentSessionKey, childSessionKey, wakeParentOnEnd) ==
  IF ~resolveWakeParentOnEnd(wakeParentOnEnd) THEN entries
  ELSE IF runId = Null THEN entries
  ELSE IF parentSessionKey = Null THEN entries
  ELSE MapSet(entries, runId,
          [parentSessionKey |-> parentSessionKey,
           childSessionKey |-> childSessionKey,
           wakeParentOnEnd |-> TRUE])

\* The spawn tool calls trackSpawn once per accepted spawn, with the runId the
\* session runtime returned for it (a fresh id, or none).
trackSpawn(r, runId, parentSessionKey, wakeParentOnEnd) ==
  /\ r \notin spawnedRuns
  /\ runId \in {r, Null}
  /\ spawnedRuns' = spawnedRuns \cup {r}
  /\ entriesByRunId' =
       EntriesAfterTrack(entriesByRunId, runId, parentSessionKey,
                         ChildSessionKeyOf(r), wakeParentOnEnd)
  /\ UNCHANGED <<wakeCalls, wakePending, wakeWarnings, wakeFailed, endedCalls, endedWhileInFlight, endedByChildKey, endedAfterFailedWake>>
  /\ UNCHANGED outsideTracker

\* Faulty variant of EntriesAfterWakeClaimed: the entry stays while the RPC is awaited.
EntriesKeptDuringWake(entries, runId) == entries

\* entriesByRunId.delete(runId), done before the wake RPC is awaited.
EntriesAfterWakeClaimed(entries, runId) == MapDelete(entries, runId)

\* The RPC request handleSubagentEnded passes to wakeParent.
WakeRequest(entry, runId, rawOutcome, key) ==
  [sessionKey |-> entry.parentSessionKey,
   deliver |-> TRUE,
   channel |-> "last",
   lane |-> "sk-sync-wake",
   idempotencyKey |-> key,
   status |-> mapOutcomeToSessionState(rawOutcome),
   child |-> entry.childSessionKey,
   run |-> runId,
   outcome |-> IF rawOutcome = Undefined THEN "unknown" ELSE rawOutcome]

\* handleSubagentEnded up to its await: look the entry up, delete it, issue the
\* wake RPC.  Without a runId, or without a tracked entry, it returns at once.
HandleEndedIssuesWake(runId) ==
  /\ runId # Null
  /\ runId \in DOMAIN entriesByRunId
  /\ entriesByRunId[runId].wakeParentOnEnd

\* The input's runId is all the tracker reads; a childSessionKey handed in with
\* the input is not a field of the parameter type and is never looked at.
HandleEnded(runId, childSessionKey, outcome) ==
  /\ endedByChildKey' =
       IF runId = Null
       THEN endedByChildKey \cup
              {r \in DOMAIN entriesByRunId :
                 /\ entriesByRunId[r].childSessionKey = childSessionKey
                 /\ entriesByRunId[r].wakeParentOnEnd}
       ELSE endedByChildKey
  /\ endedCalls' = IF runId = Null THEN endedCalls
                   ELSE [endedCalls EXCEPT ![runId] = @ + 1]
  /\ endedWhileInFlight' =
       IF runId # Null /\ \E i \in wakePending : wakeCalls[i].run = runId
       THEN endedWhileInFlight \cup {runId} ELSE endedWhileInFlight
  /\ endedAfterFailedWake' =
       IF runId # Null /\ \E i \in wakeFailed : wakeCalls[i].run = runId
       THEN endedAfterFailedWake \cup {runId} ELSE endedAfterFailedWake
  /\ IF ~HandleEndedIssuesWake(runId)
     THEN UNCHANGED <<entriesByRunId, wakeCalls, wakePending>>
     ELSE /\ entriesByRunId' = EntriesAfterWakeClaimed(entriesByRunId, runId)
          /\ wakeCalls' = Append(wakeCalls,
               WakeRequest(entriesByRunId[runId], runId, outcome, Len(wakeCalls) + 1))
          /\ wakePending' = wakePending \cup {Len(wakeCalls) + 1}

handleSubagentEnded(runId, childSessionKey, outcome) ==
  /\ runId # Null => (endedCalls[runId] < MaxEndedCalls /\ childSessionKey = Undefined)
  /\ HandleEnded(runId, childSessionKey, outcome)
  /\ UNCHANGED <<spawnedRuns, wakeWarnings, wakeFailed>>
  /\ UNCHANGED outsideTracker

\* The awaited wake RPC settles; a rejection is caught and logged.
WakeSettles(i, ok) ==
  /\ i \in wakePending
  /\ wakePending' = wakePending \ {i}
  /\ wakeWarnings' = IF ok THEN wakeWarnings ELSE wakeWarnings + 1
  /\ wakeFailed' = IF ok THEN wakeFailed ELSE wakeFailed \cup {i}
  /\ UNCHANGED <<entriesByRunId, spawnedRuns, wakeCalls, endedCalls, endedWhileInFlight, endedByChildKey, endedAfterFailedWake>>
  /\ UNCHANGED outsideTracker

WakeNext ==
  \/ \E r \in RunIds, runId \in RunIds \cup {Null},
        p \in ParentSessionKeys \cup {Null}, w \in WakeFlags :
       trackSpawn(r, runId, p, w)
  \/ \E runId \in RunIds \cup {Null}, o \in Outcomes,
        c \in {ChildSessionKeyOf(r) : r \in RunIds} \cup {Undefined} :
       handleSubagentEnded(runId, c, o)
  \/ \E i \in 1..Len(wakeCalls), ok \in BOOLEAN : WakeSettles(i, ok)

WakeCallsFor(runId) == {i \in 1..Len(wakeCalls) : wakeCalls[i].run = runId}

\* C1: for every runId, at most one parent-wake RPC is ever issued, however many
\* times handleSubagentEnded is invoked for it, also while a wake is in flight.
C1_WakeAtMostOncePerRun ==
  \A r \in RunIds : Cardinality(WakeCallsFor(r)) <= 1

\* C18: when handleSubagentEnded is called without a runId but with the
\* childSessionKey of a tracked spawn, the tracked run's parent is woken exactly
\* once, by a wake that names that child and that run.
C18_WakeResolvedByChildKey ==
  \A r \in endedByChildKey :
    /\ Cardinality(WakeCallsFor(r)) = 1
    /\ \A i \in WakeCallsFor(r) : wakeCalls[i].child = ChildSessionKeyOf(r)

\* C19: every parent-wake RPC goes to a tracked parent session with
\* deliver = false, channel "last", lane "sk-sync-wake" and an idempotencyKey.
C19_WakeRequestShape ==
  \A i \in 1..Len(wakeCalls) :
    /\ wakeCalls[i].sessionKey \in ParentSessionKeys
    /\ wakeCalls[i].deliver = FALSE
    /\ wakeCalls[i].channel = "last"
    /\ wakeCalls[i].lane = "sk-sync-wake"
    /\ wakeCalls[i].idempotencyKey \in 1..Len(wakeCalls)

\* C35: a runId whose wake RPC was issued has no entry in the tracker, whether
\* the RPC is in flight, succeeded or failed, and an end reported after a failed
\* wake issues no second wake for the run.
C35_EntryGoneWhateverTheWake ==
  \A r \in RunIds :
    WakeCallsFor(r) # {} =>
      /\ r \notin DOMAIN entriesByRunId
      /\ Cardinality(WakeCallsFor(r)) = 1

\* C35 witness: the wake of a run failed, the run's end was reported again, and
\* the run still has its one wake and no entry.
C35_Witness ==
  \E r \in endedAfterFailedWake :
    /\ WakeCallsFor(r) \subseteq wakeFailed
    /\ Cardinality(WakeCallsFor(r)) = 1
    /\ r \notin DOMAIN entriesByRunId

\* C1 witness: a further invocation arrived while the wake RPC of that run was
\* still in flight, and the run still has exactly one wake.
C1_Witness ==
  \E r \in RunIds :
    /\ r \in endedWhileInFlight
    /\ endedCalls[r] >= 2
    /\ \E i \in wakePending : wakeCalls[i].run = r
    /\ Cardinality(WakeCallsFor(r)) = 1

(***************************************************************************)
(* SK-Sync: Super-Kanban as the controller sees it, and the spawn tool     *)
(* (createSkSyncSpawnTool.execute)                                         *)
(***************************************************************************)

Levels == {"ORION", "ATLAS", "WORKER"}
OtherOwner == "other-session"
ExistingSessionKey == "existing-1"

\* How an awaited call can end: 2xx, a non-2xx HTTP response, or a transport
\* failure (network error, DNS failure, timeout abort).
Responses == {"ok", "http", "transport"}
\* lockTask can also be refused because the lock is held: HTTP 423/409.
LockResponses == Responses \cup {"locked"}

\* What SK's session list can hold for the entity (createdAt order).
SessionLists ==
  { <<>>,
    <<[sessionKey |-> ExistingSessionKey, state |-> "RUNNING"]>>,
    <<[sessionKey |-> ExistingSessionKey, state |-> "DONE"]>>,
    <<[sessionKey |-> "existing-0", state |-> "DONE"],
      [sessionKey |-> ExistingSessionKey, state |-> "RUNNING"]>> }

Call(op, key, arg) == [op |-> op, key |-> key, arg |-> arg]

NoResult == [status |-> "none", reason |-> "", entityType |-> "", action |-> ""]
Thrown(why) == [status |-> "error", reason |-> why, entityType |-> "", action |-> ""]

EntityTypeOf(level) ==
  IF level = "ORION" THEN "PROJECT" ELSE IF level = "ATLAS" THEN "WORK_ITEM" ELSE "TASK"

RECURSIVE FirstRunning(_, _)
\* sessions.find((s) => s.state === "RUNNING") from index i on; 0 when none.
FirstRunning(sessions, i) ==
  IF i > Len(sessions) THEN 0
  ELSE IF sessions[i].state = "RUNNING" THEN i
  ELSE FirstRunning(sessions, i + 1)

\* Faulty variant of firstSessionKey: the first listed session, whatever its state.
firstSessionKeyIgnoringState(sessions) ==
  IF Len(sessions) > 0 THEN sessions[1].sessionKey ELSE Null

firstSessionKey(sessions) ==
  IF FirstRunning(sessions, 1) # 0 THEN sessions[FirstRunning(sessions, 1)].sessionKey
  ELSE IF Len(sessions) > 0 THEN sessions[1].sessionKey
  ELSE Null

\* An external id is modelled as the string split at ":" (so "workitem:pA:W1" is
\* <<"workitem", "pA", "W1">> and the empty string is <<"">>); an optional
\* argument is either absent (undefined) or given.
Absent == [given |-> FALSE, segs |-> <<>>]
Given(segs) == [given |-> TRUE, segs |-> segs]

ProjectIds ==
  { <<"pA">>, <<"project", "pA">>, <<"project", "pA", "x">>, <<"x", "pA">>, <<"">> }
WorkItemIds ==
  { Absent, Given(<<"W1">>), Given(<<"workitem", "pA", "W1">>),
    Given(<<"workitem", "pB", "W1">>), Given(<<"workitem", "W1">>), Given(<<"">>) }
TaskIds ==
  { Absent, Given(<<"T1">>), Given(<<"task", "pA", "W1", "T1">>),
    Given(<<"task", "pA", "W2", "T1">>), Given(<<"task", "pB", "W1", "T1">>),
    Given(<<"task", "T1">>) }

CanonFailed == [ok |-> FALSE, externalId |-> <<>>, key |-> ""]
Canon(externalId, key) == [ok |-> TRUE, externalId |-> externalId, key |-> key]

canonicalizeProjectExternalId(segs) ==
  IF segs = <<"">> THEN CanonFailed
  ELSE IF Len(segs) >= 2 /\ segs[1] = "project"
  THEN IF Len(segs) = 2 /\ segs[2] # ""
       THEN Canon(<<"project", segs[2]>>, segs[2])
       ELSE CanonFailed
  ELSE IF Len(segs) = 1 THEN Canon(<<"project", segs[1]>>, segs[1])
  ELSE CanonFailed

\* Faulty variant of canonicalizeWorkItemExternalId: the project segment of a
\* canonical work-item id is not compared with the declared project.
canonicalizeWorkItemExternalIdUnchecked(segs, projectKey) ==
  IF segs = <<"">> THEN CanonFailed
  ELSE IF Len(segs) >= 2 /\ segs[1] = "workitem"
  THEN IF Len(segs) = 3 /\ segs[2] # "" /\ segs[3] # ""
       THEN Canon(<<"workitem", segs[2], segs[3]>>, segs[3])
       ELSE CanonFailed
  ELSE IF Len(segs) = 1 THEN Canon(<<"workitem", projectKey, segs[1]>>, segs[1])
  ELSE CanonFailed

canonicalizeWorkItemExternalId(segs, projectKey) ==
  IF segs = <<"">> THEN CanonFailed
  ELSE IF Len(segs) >= 2 /\ segs[1] = "workitem"
  THEN IF Len(segs) = 3 /\ segs[2] # "" /\ segs[3] # ""
       THEN IF segs[2] # projectKey THEN CanonFailed
            ELSE Canon(<<"workitem", segs[2], segs[3]>>, segs[3])
       ELSE CanonFailed
  ELSE IF Len(segs) = 1 THEN Canon(<<"workitem", projectKey, segs[1]>>, segs[1])
  ELSE CanonFailed

canonicalizeTaskExternalId(segs, projectKey, workItemKey) ==
  IF segs = <<"">> THEN CanonFailed
  ELSE IF Len(segs) >= 2 /\ segs[1] = "task"
  THEN IF Len(segs) = 4 /\ segs[2] # "" /\ segs[3] # "" /\ segs[4] # ""
       THEN IF segs[2] # projectKey \/ segs[3] # workItemKey THEN CanonFailed
            ELSE Canon(<<"task", segs[2], segs[3], segs[4]>>, segs[4])
       ELSE CanonFailed
  ELSE IF Len(segs) = 1 THEN Canon(<<"task", projectKey, workItemKey, segs[1]>>, segs[1])
  ELSE CanonFailed

\* resolveSkSyncCanonicalization: project first, then the work item against the
\* project key, then the task against both; the first failure throws.
resolveSkSyncCanonicalization(projectId, workItemId, taskId) ==
  LET project == canonicalizeProjectExternalId(projectId)
      workItem == IF workItemId.given /\ project.ok
                  THEN canonicalizeWorkItemExternalId(workItemId.segs, project.key)
                  ELSE CanonFailed
      task == IF taskId.given /\ workItemId.given /\ project.ok /\ workItem.ok
              THEN canonicalizeTaskExternalId(taskId.segs, project.key, workItem.key)
              ELSE CanonFailed
  IN [ok |-> /\ project.ok
             /\ workItemId.given => workItem.ok
             /\ taskId.given => (workItemId.given /\ task.ok),
      projectExternalId |-> project.externalId,
      workItemExternalId |-> IF workItemId.given THEN Given(workItem.externalId) ELSE Absent,
      taskExternalId |-> IF taskId.given THEN Given(task.externalId) ELSE Absent]

\* The argument checks ahead of canonicalization: !args.workItemExternalId for
\* ATLAS|WORKER, !args.taskExternalId for WORKER (absent or the empty string).
RequiredIdsPresent(level, workItemId, taskId) ==
  /\ level \in {"ATLAS", "WORKER"} => (workItemId.given /\ workItemId.segs # <<"">>)
  /\ level = "WORKER" => (taskId.given /\ taskId.segs # <<"">>)

SkInit ==
  /\ skSessions = EmptyMap
  /\ taskLock \in {Null, OtherOwner}
  /\ taskStatus = "IN_PROGRESS"
  /\ skCalls = <<>>
  /\ requesterSessionKeyByChild = EmptyMap

SpawnInit ==
  /\ spawnPc = "idle"
  /\ spawnArgs = [level |-> "ORION", ctxSessionKey |-> Null,
                  wakeParentOnEnd |-> Undefined,
                  projectExternalId |-> <<"project", "pA">>,
                  workItemExternalId |-> Absent, taskExternalId |-> Absent]
  /\ spawnLocal = [existingSessionKey |-> Null, runId |-> Null, childSessionKey |-> "",
                   spawnStatus |-> "none", unlockResponse |-> "none",
                   sessions |-> <<>>]
  /\ spawnResult = NoResult
  /\ lockResponse = "none"

SpawnReturn(result) ==
  /\ spawnPc' = "done"
  /\ spawnResult' = result

\* SK's side of POST /sessions/attach: an upsert of the session's state.
SkAttach(sessions, sessionKey, entityType, state) ==
  MapSet(sessions, sessionKey, [entityType |-> entityType, state |-> state])

\* execute() up to its first await: argument checks, canonicalization, then the
\* project upsert is issued.
SpawnStart(level, ctxSessionKey, wakeParentOnEnd, projectId, workItemId, taskId) ==
  /\ spawnPc = "idle"
  /\ LET canon == resolveSkSyncCanonicalization(projectId, workItemId, taskId)
         raw == [level |-> level, ctxSessionKey |-> ctxSessionKey,
                 wakeParentOnEnd |-> wakeParentOnEnd,
                 projectExternalId |-> projectId,
                 workItemExternalId |-> workItemId, taskExternalId |-> taskId]
     IN IF ~RequiredIdsPresent(level, workItemId, taskId)
        THEN /\ spawnArgs' = raw
             /\ SpawnReturn(Thrown("validation"))
             /\ UNCHANGED skCalls
        ELSE IF ~canon.ok
        THEN /\ spawnArgs' = raw
             /\ SpawnReturn(Thrown("canonicalization"))
             /\ UNCHANGED skCalls
        ELSE /\ spawnArgs' = [raw EXCEPT !.projectExternalId = canon.projectExternalId,
                                         !.workItemExternalId = canon.workItemExternalId,
                                         !.taskExternalId = canon.taskExternalId]
             /\ spawnPc' = "upsertProject"
             /\ skCalls' = Append(skCalls, Call("upsertProject", "", ""))
             /\ UNCHANGED spawnResult
  /\ UNCHANGED <<spawnLocal, lockResponse, skSessions, taskLock, taskStatus,
                 requesterSessionKeyByChild, wakeVars>>
  /\ UNCHANGED outsideSpawnTool

UpsertProjectReturns(resp) ==
  /\ spawnPc = "upsertProject"
  /\ IF resp # "ok"
     THEN SpawnReturn(Thrown(resp)) /\ UNCHANGED skCalls
     ELSE IF spawnArgs.level \in {"ATLAS", "WORKER"}
     THEN /\ spawnPc' = "upsertWorkItem"
          /\ skCalls' = Append(skCalls, Call("upsertWorkItem", "", ""))
          /\ UNCHANGED spawnResult
     ELSE /\ spawnPc' = "listSessions"
          /\ skCalls' = Append(skCalls, Call("listProjectSessions", "", ""))
          /\ UNCHANGED spawnResult
  /\ UNCHANGED <<spawnArgs, spawnLocal, lockResponse, skSessions, taskLock, taskStatus,
                 requesterSessionKeyByChild, wakeVars>>
  /\ UNCHANGED outsideSpawnTool

UpsertWorkItemReturns(resp) ==
  /\ spawnPc = "upsertWorkItem"
  /\ IF resp # "ok"
     THEN SpawnReturn(Thrown(resp)) /\ UNCHANGED skCalls
     ELSE IF spawnArgs.level = "WORKER"
     THEN /\ spawnPc' = "upsertTask"
          /\ skCalls' = Append(skCalls, Call("upsertTask", "", ""))
          /\ UNCHANGED spawnResult
     ELSE /\ spawnPc' = "listSessions"
          /\ skCalls' = Append(skCalls, Call("listWorkItemSessions", "", ""))
          /\ UNCHANGED spawnResult
  /\ UNCHANGED <<spawnArgs, spawnLocal, lockResponse, skSessions, taskLock, taskStatus,
                 requesterSessionKeyByChild, wakeVars>>
  /\ UNCHANGED outsideSpawnTool

\* After the task upsert: WORKER needs ctx.sessionKey as lock owner, then locks.
UpsertTaskReturns(resp) ==
  /\ spawnPc = "upsertTask"
  /\ IF resp # "ok"
     THEN SpawnReturn(Thrown(resp)) /\ UNCHANGED skCalls
     ELSE IF spawnArgs.ctxSessionKey = Null
     THEN SpawnReturn(Thrown("no-owner")) /\ UNCHANGED skCalls
     ELSE /\ spawnPc' = "lockTask"
          /\ skCalls' = Append(skCalls, Call("lockTask", "task", spawnArgs.ctxSessionKey))
          /\ UNCHANGED spawnResult
  /\ UNCHANGED <<spawnArgs, spawnLocal, lockResponse, skSessions, taskLock, taskStatus,
                 requesterSessionKeyByChild, wakeVars>>
  /\ UNCHANGED outsideSpawnTool

\* Faulty variant of ResultOnLockFailure: the catch rethrows the error.
ResultOnLockFailureRethrown(resp, entityType) == Thrown(resp)

\* The catch around lockTask: whatever made the call fail, the tool returns the
\* structured conflict.
ResultOnLockFailure(resp, entityType) ==
  [status |-> "conflict", reason |-> "task_locked", entityType |-> entityType, action |-> ""]

\* SK answers lockTask: 2xx takes the lock; 423/409 when another owner holds it;
\* on a failure without an answer the lock may or may not have been taken.
LockTaskReturns(resp) ==
  /\ spawnPc = "lockTask"
  /\ lockResponse' = resp
  /\ CASE resp = "ok" ->
            /\ taskLock \in {Null, spawnArgs.ctxSessionKey}
            /\ taskLock' = spawnArgs.ctxSessionKey
       [] resp = "locked" ->
            /\ taskLock \notin {Null, spawnArgs.ctxSessionKey}
            /\ UNCHANGED taskLock
       [] resp = "http" -> UNCHANGED taskLock
       [] resp = "transport" ->
            \/ UNCHANGED taskLock
            \/ /\ taskLock = Null
               /\ taskLock' = spawnArgs.ctxSessionKey
  /\ IF resp # "ok"
     THEN /\ SpawnReturn(ResultOnLockFailure(resp, EntityTypeOf(spawnArgs.level)))
          /\ UNCHANGED skCalls
     ELSE /\ spawnPc' = "sessionsSpawn"
          /\ skCalls' = Append(skCalls, Call("sessionsSpawn", "", ""))
          /\ UNCHANGED spawnResult
  /\ UNCHANGED <<spawnArgs, spawnLocal, skSessions, taskStatus,
                 requesterSessionKeyByChild, wakeVars>>
  /\ UNCHANGED outsideSpawnTool

\* ORION/ATLAS: the session list arrives; reuse a listed session or spawn.
ListSessionsReturns(resp, sessions) ==
  /\ spawnPc = "listSessions"
  /\ IF resp # "ok"
     THEN SpawnReturn(Thrown(resp)) /\ UNCHANGED <<skCalls, spawnLocal>>
     ELSE IF firstSessionKey(sessions) # Null
     THEN /\ spawnPc' = "attachReuse"
          /\ spawnLocal' = [spawnLocal EXCEPT !.existingSessionKey = firstSessionKey(sessions),
                                              !.sessions = sessions]
          /\ skCalls' = Append(skCalls,
               Call("attachSession", firstSessionKey(sessions), "RUNNING"))
          /\ UNCHANGED spawnResult
     ELSE /\ spawnPc' = "sessionsSpawn"
          /\ skCalls' = Append(skCalls, Call("sessionsSpawn", "", ""))
          /\ UNCHANGED <<spawnResult, spawnLocal>>
  /\ UNCHANGED <<spawnArgs, lockResponse, skSessions, taskLock, taskStatus,
                 requesterSessionKeyByChild, wakeVars>>
  /\ UNCHANGED outsideSpawnTool

AttachReuseReturns(resp) ==
  /\ spawnPc = "attachReuse"
  /\ IF resp # "ok"
     THEN SpawnReturn(Thrown(resp)) /\ UNCHANGED <<skCalls, skSessions>>
     ELSE /\ spawnPc' = "sessionsSend"
          /\ skSessions' = SkAttach(skSessions, spawnLocal.existingSessionKey,
                                     EntityTypeOf(spawnArgs.level), "RUNNING")
          /\ skCalls' = Append(skCalls,
               Call("sessionsSend", spawnLocal.existingSessionKey, "task"))
          /\ UNCHANGED spawnResult
  /\ UNCHANGED <<spawnArgs, spawnLocal, lockResponse, taskLock, taskStatus,
                 requesterSessionKeyByChild, wakeVars>>
  /\ UNCHANGED outsideSpawnTool

SessionsSendReturns(ok) ==
  /\ spawnPc = "sessionsSend"
  /\ IF ok
     THEN SpawnReturn([status |-> "ok", reason |-> "",
                       entityType |-> EntityTypeOf(spawnArgs.level), action |-> "reused"])
     ELSE SpawnReturn(Thrown("sessionsSend"))
  /\ UNCHANGED <<spawnArgs, spawnLocal, lockResponse, skVars, wakeVars>>
  /\ UNCHANGED outsideSpawnTool


\* The run the spawn invocation creates.
SpawnedRun == "run-1"

\* What sessionsSpawn can answer: it throws, or returns a result whose status is
\* "accepted" or "ok" (success) or anything else (here "forbidden" and "error").
SpawnStatuses == {"throws", "forbidden", "error", "accepted", "ok"}

\* const ok = status === "accepted" || status === "ok"
SpawnOk(status) == status \in {"accepted", "ok"}

\* The tool result of a spawn that was not accepted: spawnRes itself.
SpawnResAsResult(status) ==
  [status |-> status, reason |-> "", entityType |-> "", action |-> ""]

\* sessionsSpawn settles: it throws, is refused, or is accepted with the child's
\* session key and (usually) a runId.  Accepted: the spawn is tracked for the
\* parent wake, the child's requester is remembered, and the child is attached.
SessionsSpawnReturns(status, runId) ==
  /\ spawnPc = "sessionsSpawn"
  /\ runId \in {SpawnedRun, Null}
  /\ CASE status = "throws" ->
            /\ runId = Null
            /\ SpawnReturn(Thrown("sessionsSpawn"))
            /\ spawnLocal' = [spawnLocal EXCEPT !.spawnStatus = status]
            /\ UNCHANGED <<skCalls, requesterSessionKeyByChild, wakeVars>>
       [] status # "throws" /\ ~SpawnOk(status) ->
            /\ runId = Null
            /\ spawnLocal' = [spawnLocal EXCEPT !.spawnStatus = status]
            /\ IF spawnArgs.level = "WORKER" /\ spawnArgs.ctxSessionKey # Null
               THEN /\ spawnPc' = "unlockTask"
                    /\ skCalls' = Append(skCalls,
                         Call("unlockTask", "task", spawnArgs.ctxSessionKey))
                    /\ UNCHANGED spawnResult
               ELSE /\ SpawnReturn(SpawnResAsResult(status))
                    /\ UNCHANGED skCalls
            /\ UNCHANGED <<requesterSessionKeyByChild, wakeVars>>
       [] SpawnOk(status) ->
            /\ SpawnedRun \notin spawnedRuns
            /\ spawnedRuns' = spawnedRuns \cup {SpawnedRun}
            /\ entriesByRunId' =
                 EntriesAfterTrack(entriesByRunId, runId, spawnArgs.ctxSessionKey,
                                   ChildSessionKeyOf(SpawnedRun), spawnArgs.wakeParentOnEnd)
            /\ requesterSessionKeyByChild' =
                 IF spawnArgs.ctxSessionKey # Null
                 THEN MapSet(requesterSessionKeyByChild, ChildSessionKeyOf(SpawnedRun),
                             spawnArgs.ctxSessionKey)
                 ELSE requesterSessionKeyByChild
            /\ spawnLocal' = [spawnLocal EXCEPT !.runId = runId,
                                !.childSessionKey = ChildSessionKeyOf(SpawnedRun),
                                !.spawnStatus = status]
            /\ spawnPc' = "attachChild"
            /\ skCalls' = Append(skCalls,
                 Call("attachSession", ChildSessionKeyOf(SpawnedRun), "RUNNING"))
            /\ UNCHANGED <<spawnResult, wakeCalls, wakePending, wakeWarnings, wakeFailed,
                           endedCalls, endedWhileInFlight, endedByChildKey, endedAfterFailedWake>>
  /\ UNCHANGED <<spawnArgs, lockResponse, skSessions, taskLock, taskStatus>>
  /\ UNCHANGED outsideSpawnTool

\* SK's side of POST /tasks/:id/unlock: only the owner's unlock releases it.
SkUnlock(lock, owner) == IF lock = owner THEN Null ELSE lock

\* Faulty variant of ResultAfterUnlock: a failing unlock is rethrown.
ResultAfterUnlockRethrown(resp, status) ==
  IF resp = "ok" THEN SpawnResAsResult(status) ELSE Thrown(resp)

\* try { await unlockTask } catch { ignore }; return spawnRes
ResultAfterUnlock(resp, status) == SpawnResAsResult(status)

\* The best-effort unlock after a refused WORKER spawn settles; its failure is
\* swallowed and the refused spawn result is returned either way.
UnlockAfterRefusedReturns(resp) ==
  /\ spawnPc = "unlockTask"
  /\ taskLock' = IF resp = "ok" THEN SkUnlock(taskLock, spawnArgs.ctxSessionKey)
                 ELSE taskLock
  /\ spawnLocal' = [spawnLocal EXCEPT !.unlockResponse = resp]
  /\ SpawnReturn(ResultAfterUnlock(resp, spawnLocal.spawnStatus))
  /\ UNCHANGED <<spawnArgs, lockResponse, skSessions, taskStatus, skCalls,
                 requesterSessionKeyByChild, wakeVars>>
  /\ UNCHANGED outsideSpawnTool

AttachChildReturns(resp) ==
  /\ spawnPc = "attachChild"
  /\ IF resp # "ok"
     THEN SpawnReturn(Thrown(resp)) /\ UNCHANGED skSessions
     ELSE /\ skSessions' = SkAttach(skSessions, spawnLocal.childSessionKey,
                                     EntityTypeOf(spawnArgs.level), "RUNNING")
          /\ SpawnReturn([status |-> "ok", reason |-> "",
                          entityType |-> EntityTypeOf(spawnArgs.level),
                          action |-> "spawned"])
  /\ UNCHANGED <<spawnArgs, spawnLocal, lockResponse, taskLock, taskStatus, skCalls,
                 requesterSessionKeyByChild, wakeVars>>
  /\ UNCHANGED outsideSpawnTool

\* The tool is invoked with external ids drawn from the given sets.
SpawnStarts(projectIds, workItemIds, taskIds) ==
  \E level \in Levels, k \in ParentSessionKeys \cup {Null}, w \in WakeFlags,
     projectId \in projectIds, workItemId \in workItemIds, taskId \in taskIds :
       SpawnStart(level, k, w, projectId, workItemId, taskId)

\* Every step of an invocation after its start.
SpawnContinues ==
  \/ \E resp \in Responses : UpsertProjectReturns(resp)
  \/ \E resp \in Responses : UpsertWorkItemReturns(resp)
  \/ \E resp \in Responses : UpsertTaskReturns(resp)
  \/ \E resp \in LockResponses : LockTaskReturns(resp)
  \/ \E resp \in Responses, sessions \in SessionLists : ListSessionsReturns(resp, sessions)
  \/ \E resp \in Responses : AttachReuseReturns(resp)
  \/ \E ok \in BOOLEAN : SessionsSendReturns(ok)
  \/ \E status \in SpawnStatuses, runId \in {SpawnedRun, Null} :
       SessionsSpawnReturns(status, runId)
  \/ \E resp \in Responses : UnlockAfterRefusedReturns(resp)
  \/ \E resp \in Responses : AttachChildReturns(resp)

SpawnNext ==
  \/ SpawnStarts(ProjectIds, WorkItemIds, TaskIds)
  \/ SpawnContinues

CallsOf(op) == {i \in 1..Len(skCalls) : skCalls[i].op = op}

\* C9: in WORKER mode, when SK refuses lockTask because the lock is held
\* (423/409), the tool returns the structured conflict (status "conflict", reason
\* "task_locked", entityType "TASK") instead of throwing, and sessionsSpawn is not called.
C9_LockConflictIsStructured ==
  lockResponse = "locked" =>
    /\ spawnArgs.level = "WORKER"
    /\ spawnPc = "done"
    /\ spawnResult = [status |-> "conflict", reason |-> "task_locked",
                      entityType |-> "TASK", action |-> ""]
    /\ CallsOf("sessionsSpawn") = {}

\* C9 witness: a WORKER invocation whose lockTask SK refused with 423/409.
C9_Witness ==
  /\ lockResponse = "locked"
  /\ taskLock = OtherOwner
  /\ CallsOf("lockTask") # {}
  /\ spawnResult.status = "conflict"

\* C10: a transport failure of lockTask reaches the caller as an error; the
\* structured conflict is returned only when SK reports the lock as held.
C10_ConflictOnlyWhenLocked ==
  /\ (spawnResult.status = "conflict" => lockResponse = "locked")
  /\ (lockResponse = "transport" /\ spawnPc = "done" => spawnResult.status = "error")

\* C12: for level ORION or ATLAS, once SK has listed at least one session for the
\* entity, the tool re-attaches the preferred one (the earliest listed RUNNING
\* session if there is one, else the first listed) in state RUNNING, then sends
\* the task to that session and to no other, a finished invocation that got
\* through both calls reports "reused", and sessionsSpawn is never called.
C12_ReuseExistingSession ==
  Len(spawnLocal.sessions) > 0 =>
    LET running == {i \in 1..Len(spawnLocal.sessions) :
                      spawnLocal.sessions[i].state = "RUNNING"}
        preferred == IF running # {}
                     THEN spawnLocal.sessions[CHOOSE i \in running :
                                                \A j \in running : i <= j].sessionKey
                     ELSE spawnLocal.sessions[1].sessionKey
    IN /\ spawnArgs.level \in {"ORION", "ATLAS"}
       /\ CallsOf("sessionsSpawn") = {}
       /\ \E i \in CallsOf("attachSession") :
            /\ skCalls[i].key = preferred
            /\ skCalls[i].arg = "RUNNING"
            /\ \A j \in CallsOf("sessionsSend") :
                 i < j /\ skCalls[j].key = preferred /\ skCalls[j].arg = "task"
       /\ \A i \in CallsOf("attachSession") : skCalls[i].key = preferred
       /\ spawnPc = "sessionsSend" => CallsOf("sessionsSend") # {}
       /\ (spawnPc = "done" /\ spawnResult.status = "ok") =>
            /\ spawnResult.action = "reused"
            /\ CallsOf("sessionsSend") # {}
            /\ preferred \in DOMAIN skSessions
            /\ skSessions[preferred].state = "RUNNING"

\* C12 witness: SK listed a finished session before a RUNNING one, and the task
\* was forwarded to the RUNNING one.
C12_Witness ==
  /\ Len(spawnLocal.sessions) = 2
  /\ spawnLocal.sessions[1].state = "DONE"
  /\ spawnPc = "done"
  /\ spawnResult.action = "reused"
  /\ \E j \in CallsOf("sessionsSend") : skCalls[j].key = ExistingSessionKey

\* C13: the external ids are canonicalized before any network call: when the
\* supplied ids are malformed or do not agree across levels (a work item whose
\* project segment differs from the declared project, a task whose project or
\* work-item segment differs), the invocation has failed and no SK request,
\* lockTask, sessionsSend or sessionsSpawn was made.
C13_CanonicalizeBeforeNetwork ==
  LET p == spawnArgs.projectExternalId
      w == spawnArgs.workItemExternalId
      t == spawnArgs.taskExternalId
      projectKey == p[Len(p)]
      projectBad == ~(\/ Len(p) = 1 /\ p[1] # ""
                      \/ Len(p) = 2 /\ p[1] = "project" /\ p[2] # "")
      workItemBad ==
        /\ w.given
        /\ ~(\/ Len(w.segs) = 1 /\ w.segs[1] # ""
             \/ Len(w.segs) = 3 /\ w.segs[1] = "workitem" /\ w.segs[2] = projectKey)
      taskBad ==
        /\ t.given
        /\ ~(/\ w.given
             /\ \/ Len(t.segs) = 1 /\ t.segs[1] # ""
                \/ /\ Len(t.segs) = 4 /\ t.segs[1] = "task"
                   /\ t.segs[2] = projectKey
                   /\ t.segs[3] = w.segs[Len(w.segs)])
  IN /\ (spawnPc # "idle" /\ (projectBad \/ workItemBad \/ taskBad)) =>
          /\ spawnPc = "done"
          /\ spawnResult.status = "error"
          /\ skCalls = <<>>
     /\ spawnResult.reason = "canonicalization" => skCalls = <<>>

\* C13 witness: an invocation whose work item names another project than the
\* declared one was rejected by canonicalization.
C13_Witness ==
  /\ spawnPc = "done"
  /\ spawnResult.reason = "canonicalization"
  /\ spawnArgs.projectExternalId = <<"project", "pA">>
  /\ spawnArgs.workItemExternalId = Given(<<"workitem", "pB", "W1">>)

\* C11: in WORKER mode, once sessionsSpawn has returned a result that is not a
\* success, the tool has called unlockTask for the locked task with owner = the
\* requesting session key by the time it returns, after the spawn call, and it
\* returns the spawn result whether the unlock succeeded or failed.
C11_UnlockAfterRefusedSpawn ==
  (/\ spawnPc = "done"
   /\ spawnArgs.level = "WORKER"
   /\ spawnLocal.spawnStatus \notin {"none", "throws"}
   /\ ~SpawnOk(spawnLocal.spawnStatus)) =>
    /\ \E i \in CallsOf("unlockTask") :
         /\ skCalls[i].key = "task"
         /\ skCalls[i].arg = spawnArgs.ctxSessionKey
         /\ \A j \in CallsOf("sessionsSpawn") : j < i
    /\ spawnLocal.unlockResponse # "none"
    /\ spawnResult = SpawnResAsResult(spawnLocal.spawnStatus)

\* C11 witness: a WORKER spawn was refused and the unlock that followed failed.
C11_Witness ==
  /\ spawnPc = "done"
  /\ spawnArgs.level = "WORKER"
  /\ spawnLocal.spawnStatus = "forbidden"
  /\ spawnLocal.unlockResponse = "transport"
  /\ CallsOf("unlockTask") # {}
  /\ spawnResult.status = "forbidden"

\* C32: a WORKER invocation that took the task lock and has ended without a
\* child session (sessionsSpawn threw) has issued an unlockTask for the task
\* with the requesting session as owner.
C32_LockReleasedWhenSpawnThrows ==
  (/\ spawnPc = "done"
   /\ spawnArgs.level = "WORKER"
   /\ lockResponse = "ok"
   /\ spawnLocal.spawnStatus = "throws") =>
    \E i \in CallsOf("unlockTask") :
      skCalls[i].key = "task" /\ skCalls[i].arg = spawnArgs.ctxSessionKey

(***************************************************************************)
(* SK-Sync: lifecycle hooks agent_end / subagent_ended and                 *)
(* closeExecutionSession (plugin.register)                                 *)
(***************************************************************************)

HookSlots == {"h1", "h2"}
HookSessionKeys == {"child-1", "parent-1"}
\* Outcomes the session runtime reports to the hooks in the model.
HookOutcomes == {"ok", "timeout"}

\* The runtime reports the end of a session that exists: the requester's session,
\* or the child once sessionsSpawn has accepted it.
SessionStarted(key) ==
  \/ key \in ParentSessionKeys
  \/ key = ChildSessionKeyOf(SpawnedRun) /\ SpawnedRun \in spawnedRuns

\* Hook invocations explored by the model.
MaxHookRuns == 2

IdleHook ==
  [kind |-> "idle", pc |-> "idle", sessionKey |-> "", outcome |-> Undefined,
   requester |-> Null, runId |-> Null, entityType |-> "", wake |-> 0]

NoHook == [kind |-> "none", sessionKey |-> "", slot |-> "", tracked |-> FALSE]

\* A new hook invocation takes the first free slot.
FreeSlot(h) ==
  /\ hooks[h].kind = "idle"
  /\ h = "h2" => hooks["h1"].kind # "idle"

HookInit ==
  /\ hooks = [h \in HookSlots |-> IdleHook]
  /\ hooksStarted = 0
  /\ lastHook = NoHook
  /\ hookWarnings = 0
  /\ sessionEnds = [k \in HookSessionKeys |-> 0]

\* The owner closeExecutionSession unlocks with:
\* input.requesterSessionKey ?? requesterSessionKeyByChild.get(sessionKey) ?? null.
CloseOwner(rec) ==
  IF rec.requester # Null THEN rec.requester
  ELSE IF rec.sessionKey \in DOMAIN requesterSessionKeyByChild
    THEN requesterSessionKeyByChild[rec.sessionKey]
  ELSE Null

\* closeExecutionSession has returned.  agent_end is done; subagent_ended goes on
\* to the tracker's handleSubagentEnded and awaits the wake RPC, if one was issued.
CloseReturned(h, rec) ==
  IF rec.kind = "subagent_ended"
  THEN /\ HandleEnded(rec.runId, Undefined, rec.outcome)
       /\ hooks' = [hooks EXCEPT ![h] =
            IF HandleEndedIssuesWake(rec.runId)
            THEN [rec EXCEPT !.pc = "wake", !.wake = Len(wakeCalls) + 1]
            ELSE IdleHook]
  ELSE /\ hooks' = [hooks EXCEPT ![h] = IdleHook]
       /\ UNCHANGED <<entriesByRunId, wakeCalls, wakePending, endedCalls,
                      endedWhileInFlight, endedByChildKey, endedAfterFailedWake>>

\* An SK call inside closeExecutionSession threw: the hook's catch logs a
\* warning and the hook ends there.
CloseThrew(h) ==
  /\ hooks' = [hooks EXCEPT ![h] = IdleHook]
  /\ hookWarnings' = hookWarnings + 1
  /\ UNCHANGED <<entriesByRunId, wakeCalls, wakePending, endedCalls, endedWhileInFlight, endedByChildKey, endedAfterFailedWake>>

\* Faulty variant of AgentEndReturnsEarly: every ended session is closed.
AgentEndClosesAny(sessionKey, byChild) == FALSE

\* "Only handle runs we spawned/tracked":
\* if (!requesterSessionKeyByChild.has(sessionKey)) return.
AgentEndReturnsEarly(sessionKey, byChild) == sessionKey \notin DOMAIN byChild

\* agent_end: only sessions this plugin spawned are closed; the requester is
\* taken from requesterSessionKeyByChild.
AgentEnd(h, sessionKey, outcome) ==
  /\ FreeSlot(h)
  /\ SessionStarted(sessionKey)
  /\ hooksStarted < MaxHookRuns
  /\ hooksStarted' = hooksStarted + 1
  /\ lastHook' = [kind |-> "agent_end", sessionKey |-> sessionKey, slot |-> h,
                  tracked |-> sessionKey \in DOMAIN requesterSessionKeyByChild]
  /\ IF AgentEndReturnsEarly(sessionKey, requesterSessionKeyByChild)
     THEN UNCHANGED hooks
     ELSE hooks' = [hooks EXCEPT ![h] =
               [IdleHook EXCEPT !.kind = "agent_end", !.pc = "resolve",
                  !.sessionKey = sessionKey, !.outcome = outcome,
                  !.requester = IF sessionKey \in DOMAIN requesterSessionKeyByChild
                                THEN requesterSessionKeyByChild[sessionKey]
                                ELSE Null]]
  /\ UNCHANGED <<hookWarnings, skCalls, skSessions, taskLock, taskStatus,
                 requesterSessionKeyByChild, wakeVars, spawnVars>>
  /\ UNCHANGED <<sessionEnds, outsideSkSync>>

\* subagent_ended: closes the target session, whoever spawned it.
SubagentEnded(h, sessionKey, outcome, requester, runId) ==
  /\ FreeSlot(h)
  /\ SessionStarted(sessionKey)
  /\ hooksStarted < MaxHookRuns
  /\ hooksStarted' = hooksStarted + 1
  /\ lastHook' = [kind |-> "subagent_ended", sessionKey |-> sessionKey, slot |-> h,
                  tracked |-> sessionKey \in DOMAIN requesterSessionKeyByChild]
  /\ hooks' = [hooks EXCEPT ![h] =
       [IdleHook EXCEPT !.kind = "subagent_ended", !.pc = "resolve",
          !.sessionKey = sessionKey, !.outcome = outcome,
          !.requester = requester, !.runId = runId]]
  /\ UNCHANGED <<hookWarnings, skCalls, skSessions, taskLock, taskStatus,
                 requesterSessionKeyByChild, wakeVars, spawnVars>>
  /\ UNCHANGED <<sessionEnds, outsideSkSync>>

\* "If it's already terminal, avoid duplicate SESSION_ENDED": resolved.state !== "RUNNING".
CloseSkipsAttach(state) == state # "RUNNING"

\* sk.resolveSessionBySessionKey settles: an error is thrown on, 404 ends the
\* close, a terminal session only gets its TASK reconciled, a RUNNING one gets
\* the terminal attach.
ResolveReturns(h, resp) ==
  /\ hooks[h].pc = "resolve"
  /\ LET rec == hooks[h]
         key == rec.sessionKey
     IN
     IF resp # "ok"
     THEN /\ CloseThrew(h)
          /\ UNCHANGED <<skCalls, requesterSessionKeyByChild>>
     ELSE IF key \notin DOMAIN skSessions
     THEN /\ CloseReturned(h, rec)
          /\ UNCHANGED <<skCalls, requesterSessionKeyByChild, hookWarnings>>
     ELSE IF CloseSkipsAttach(skSessions[key].state)
     THEN IF skSessions[key].entityType = "TASK"
          THEN /\ hooks' = [hooks EXCEPT ![h] =
                    [rec EXCEPT !.pc = "patchTerminal", !.entityType = "TASK"]]
               /\ skCalls' = Append(skCalls,
                    Call("patchTaskStatus", "task", mapOutcomeToTaskStatus(rec.outcome).task))
               /\ UNCHANGED <<requesterSessionKeyByChild, hookWarnings, entriesByRunId,
                              wakeCalls, wakePending, endedCalls, endedWhileInFlight, endedByChildKey, endedAfterFailedWake>>
          ELSE /\ requesterSessionKeyByChild' = MapDelete(requesterSessionKeyByChild, key)
               /\ CloseReturned(h, rec)
               /\ UNCHANGED <<skCalls, hookWarnings>>
     ELSE /\ hooks' = [hooks EXCEPT ![h] =
               [rec EXCEPT !.pc = "attach", !.entityType = skSessions[key].entityType]]
          /\ skCalls' = Append(skCalls,
               Call("attachSession", key,
                    IF skSessions[key].entityType = "TASK"
                    THEN mapOutcomeToTaskStatus(rec.outcome).state
                    ELSE mapOutcomeToSessionState(rec.outcome)))
          /\ UNCHANGED <<requesterSessionKeyByChild, hookWarnings, entriesByRunId,
                         wakeCalls, wakePending, endedCalls, endedWhileInFlight, endedByChildKey, endedAfterFailedWake>>
  /\ UNCHANGED <<hooksStarted, lastHook, skSessions, taskLock, taskStatus, spawnedRuns,
                 wakeWarnings, wakeFailed, spawnVars>>
  /\ UNCHANGED <<sessionEnds, outsideSkSync>>

\* The terminal attach settles.  TASK: the task status patch follows; otherwise
\* the close is complete.
CloseAttachReturns(h, resp) ==
  /\ hooks[h].pc = "attach"
  /\ LET rec == hooks[h]
         key == rec.sessionKey
         state == IF rec.entityType = "TASK"
                  THEN mapOutcomeToTaskStatus(rec.outcome).state
                  ELSE mapOutcomeToSessionState(rec.outcome)
     IN
     IF resp # "ok"
     THEN /\ CloseThrew(h)
          /\ UNCHANGED <<skCalls, skSessions, requesterSessionKeyByChild, sessionEnds>>
     ELSE /\ skSessions' = SkAttach(skSessions, key, rec.entityType, state)
          /\ sessionEnds' = [sessionEnds EXCEPT ![key] = @ + 1]
          /\ IF rec.entityType = "TASK"
             THEN /\ hooks' = [hooks EXCEPT ![h] = [rec EXCEPT !.pc = "patch"]]
                  /\ skCalls' = Append(skCalls,
                       Call("patchTaskStatus", "task",
                            mapOutcomeToTaskStatus(rec.outcome).task))
                  /\ UNCHANGED <<requesterSessionKeyByChild, hookWarnings, entriesByRunId,
                                 wakeCalls, wakePending, endedCalls, endedWhileInFlight, endedByChildKey, endedAfterFailedWake>>
             ELSE /\ requesterSessionKeyByChild' =
                       MapDelete(requesterSessionKeyByChild, key)
                  /\ CloseReturned(h, rec)
                  /\ UNCHANGED <<skCalls, hookWarnings>>
  /\ UNCHANGED <<hooksStarted, lastHook, taskLock, taskStatus, spawnedRuns, wakeWarnings, wakeFailed, spawnVars>>
  /\ UNCHANGED outsideSkSync

\* After the status patch: unlock with the owner if there is one, else finish.
CloseAfterPatch(h, rec) ==
  IF CloseOwner(rec) # Null
  THEN /\ hooks' = [hooks EXCEPT ![h] = [rec EXCEPT !.pc = "unlock"]]
       /\ skCalls' = Append(skCalls, Call("unlockTask", "task", CloseOwner(rec)))
       /\ UNCHANGED <<requesterSessionKeyByChild, entriesByRunId, wakeCalls, wakePending,
                      endedCalls, endedWhileInFlight, endedByChildKey, endedAfterFailedWake>>
  ELSE /\ requesterSessionKeyByChild' =
            MapDelete(requesterSessionKeyByChild, rec.sessionKey)
       /\ CloseReturned(h, rec)
       /\ UNCHANGED skCalls

\* The task status patch settles.  For a session that was RUNNING a failure is
\* thrown on; for an already terminal session it is ignored.
ClosePatchReturns(h, resp) ==
  /\ hooks[h].pc \in {"patch", "patchTerminal"}
  /\ LET rec == hooks[h] IN
     /\ taskStatus' = IF resp = "ok" THEN mapOutcomeToTaskStatus(rec.outcome).task
                      ELSE taskStatus
     /\ IF resp # "ok" /\ rec.pc = "patch"
        THEN /\ CloseThrew(h)
             /\ UNCHANGED <<skCalls, requesterSessionKeyByChild>>
        ELSE /\ CloseAfterPatch(h, rec)
             /\ UNCHANGED hookWarnings
  /\ UNCHANGED <<hooksStarted, lastHook, skSessions, taskLock, spawnedRuns, wakeWarnings, wakeFailed, spawnVars>>
  /\ UNCHANGED <<sessionEnds, outsideSkSync>>

\* The unlock settles (errors ignored), the child's requester is forgotten.
CloseUnlockReturns(h, resp) ==
  /\ hooks[h].pc = "unlock"
  /\ LET rec == hooks[h] IN
     /\ taskLock' = IF resp = "ok"
                    THEN SkUnlock(taskLock, skCalls[Len(skCalls)].arg)
                    ELSE taskLock
     /\ requesterSessionKeyByChild' =
          MapDelete(requesterSessionKeyByChild, rec.sessionKey)
     /\ CloseReturned(h, rec)
  /\ UNCHANGED <<hooksStarted, lastHook, hookWarnings, skSessions, taskStatus, skCalls,
                 spawnedRuns, wakeWarnings, wakeFailed, spawnVars>>
  /\ UNCHANGED <<sessionEnds, outsideSkSync>>

\* The wake RPC awaited by subagent_ended settles.
HookWakeSettles(h, ok) ==
  /\ hooks[h].pc = "wake"
  /\ wakePending' = wakePending \ {hooks[h].wake}
  /\ wakeWarnings' = IF ok THEN wakeWarnings ELSE wakeWarnings + 1
  /\ wakeFailed' = IF ok THEN wakeFailed ELSE wakeFailed \cup {hooks[h].wake}
  /\ hooks' = [hooks EXCEPT ![h] = IdleHook]
  /\ UNCHANGED <<hooksStarted, lastHook, hookWarnings, entriesByRunId, spawnedRuns, wakeCalls,
                 endedCalls, endedWhileInFlight, endedByChildKey, endedAfterFailedWake, skVars, spawnVars>>
  /\ UNCHANGED <<sessionEnds, outsideSkSync>>

HookNext ==
  \/ \E h \in HookSlots, k \in HookSessionKeys, o \in HookOutcomes : AgentEnd(h, k, o)
  \/ \E h \in HookSlots, k \in {ChildSessionKeyOf(SpawnedRun)}, o \in HookOutcomes,
        q \in ParentSessionKeys \cup {Null}, r \in {SpawnedRun, Null} :
       SubagentEnded(h, k, o, q, r)
  \/ \E h \in HookSlots, resp \in Responses : ResolveReturns(h, resp)
  \/ \E h \in HookSlots, resp \in Responses : CloseAttachReturns(h, resp)
  \/ \E h \in HookSlots, resp \in Responses : ClosePatchReturns(h, resp)
  \/ \E h \in HookSlots, resp \in Responses : CloseUnlockReturns(h, resp)
  \/ \E h \in HookSlots, ok \in BOOLEAN : HookWakeSettles(h, ok)

\* C8: for every session key, across any number and interleaving of agent_end and
\* subagent_ended invocations, SK receives the session end (a successful terminal
\* attachSession) at most once.
C8_SessionEndAtMostOnce ==
  \A key \in HookSessionKeys : sessionEnds[key] <= 1

\* C36: after an agent_end for a session key that was not in
\* requesterSessionKeyByChild, and until the next hook event, the hook's slot is
\* idle: no resolve, attach, status patch or unlock of that hook is in flight.
C36_UntrackedAgentEndCallsNothing ==
  (lastHook.kind = "agent_end" /\ ~lastHook.tracked)
  => hooks[lastHook.slot] = IdleHook

\* C36 witness: an agent_end for the untracked parent session came while the
\* child the tool spawned is tracked and attached; no hook is running.
C36_Witness ==
  /\ lastHook.kind = "agent_end"
  /\ lastHook.sessionKey \in ParentSessionKeys
  /\ ~lastHook.tracked
  /\ DOMAIN requesterSessionKeyByChild # {}
  /\ DOMAIN skSessions # {}
  /\ \A h \in HookSlots : hooks[h] = IdleHook

\* C33: once the task's status has been set by the end of its session, the
\* status patch of a later end hook, which finds the session terminal, leaves
\* the status as it is.
C33_LaterEndKeepsTaskStatus ==
  [][\A h \in HookSlots :
       (/\ hooks[h].pc = "patchTerminal"
        /\ hooks'[h] # hooks[h]
        /\ taskStatus # "IN_PROGRESS")
       => taskStatus' = taskStatus]_vars

\* C34: a subagent_ended hook for a tracked runId with the wake enabled does
\* not end, whatever SK answered while the session was closed, without a
\* parent-wake RPC having been issued for the run.
C34_WakeAttemptedWhenSkFails ==
  [][\A h \in HookSlots :
       (/\ hooks[h].kind = "subagent_ended"
        /\ hooks[h].pc # "wake"
        /\ hooks'[h] = IdleHook
        /\ HandleEndedIssuesWake(hooks[h].runId))
       => \E i \in 1..Len(wakeCalls') : wakeCalls'[i].run = hooks[h].runId]_vars

(***************************************************************************)
(* Super-Kanban exporter: tailer, flush, spool sender, stop (service.ts)   *)
(*                                                                         *)
(* One transcript file of one labelled session.  Every transcript line     *)
(* yields one message event, named by its line number; every line of the   *)
(* transcript and of the spool is one byte long, so byte offsets are line  *)
(* counts.  writeJsonFile is taken at the step that calls it.              *)
(***************************************************************************)

\* Lines the agent writes to the transcript.
MaxLines == 2
\* Consecutive send failures.
MaxFailures == 1

ScanSlots == {"s1", "s2"}
TickSlots == {"t1", "t2"}

buildDefaultMeta ==
  [hasCursor |-> FALSE, fileCursor |-> 0, spoolOffset |-> 0, attached |-> FALSE,
   consecutiveFailures |-> 0, nextSendAtMs |-> Undefined]

IdleScan == [pc |-> "idle", cursor |-> 0, upTo |-> 0]
IdleTick == [pc |-> "idle", offset |-> 0, nextOffset |-> 0, ev |-> 0,
             batch |-> <<>>, statSize |-> 0]
NoFlush == [pc |-> "idle", batch |-> <<>>]

\* A spool line that is not an event: one that JSON.parse refuses, and an empty
\* line.  Events are named by positive line numbers.
Garbage == 0
Blank == -1
IsEvent(line) == line > 0
\* What start() can find in spool.jsonl: nothing, or a line no flush wrote.
SpoolsLeft == {<<>>, <<Garbage>>, <<Blank>>}

ExporterInitWith(spoolLeft, bound) ==
  /\ spool = spoolLeft
  /\ sessionBound = bound
  /\ unboundLines = {}
  /\ failureLost = FALSE
  /\ presentAtDiscovery = {}
  /\ transcriptLines = 0
  /\ notExported = {}
  /\ meta = buildDefaultMeta
  /\ metaOpen = TRUE
  /\ metaDisk = buildDefaultMeta
  /\ pending = <<>>
  /\ flushTimer = FALSE
  /\ appendLog = <<>>
  /\ stopped = FALSE
  /\ clockPast = FALSE
  /\ scans = [s \in ScanSlots |-> IdleScan]
  /\ ticks = [t \in TickSlots |-> IdleTick]
  /\ timerFlush = NoFlush
  /\ stopFlush = NoFlush
  /\ attachesOk = 0
  /\ postLog = <<>>
  /\ unattachedPosts = {}
  /\ sentOk = {}
  /\ truncLost = {}

ExporterInit == ExporterInitWith(<<>>, TRUE)

Range(seq) == {seq[i] : i \in 1..Len(seq)}

RECURSIVE LinesAsEvents(_, _)
\* The events extracted from the lines from+1 .. upTo, in file order.
LinesAsEvents(from, upTo) ==
  IF from >= upTo THEN <<>> ELSE <<from + 1>> \o LinesAsEvents(from + 1, upTo)

RECURSIVE FirstAppends(_, _)
\* The append log after a batch: each event is logged at its first append.
FirstAppends(log, batch) ==
  IF batch = <<>> THEN log
  ELSE FirstAppends(IF Head(batch) \in Range(log) THEN log ELSE Append(log, Head(batch)),
                    Tail(batch))

\* A scan can start while an earlier one is still running, once that one is past
\* its read of the file: the poll interval is longer than one file read, but not
\* than a whole scan.
FreeScan(s) ==
  /\ scans[s].pc = "idle"
  /\ \A o \in ScanSlots \ {s} : scans[o].pc \in {"idle", "bind"}
\* A new sender tick takes the first free slot.
FreeTick(t) == ticks[t].pc = "idle" /\ (t = "t2" => ticks["t1"].pc # "idle")

\* The agent appends a line to the transcript.
TranscriptAppend ==
  /\ transcriptLines < MaxLines
  /\ transcriptLines' = transcriptLines + 1
  /\ UNCHANGED <<notExported, meta, metaOpen, metaDisk, pending, flushTimer, spool,
                 appendLog, stopped, clockPast, scans, ticks, timerFlush, stopFlush,
                 attachesOk, postLog, unattachedPosts, sentOk, truncLost>>
  /\ UNCHANGED exporterRest
  /\ UNCHANGED outsideExporter

\* The backoff delay elapses.
BackoffElapses ==
  /\ meta.nextSendAtMs # Undefined
  /\ ~clockPast
  /\ clockPast' = TRUE
  /\ UNCHANGED <<transcriptLines, notExported, meta, metaOpen, metaDisk, pending,
                 flushTimer, spool, appendLog, stopped, scans, ticks, timerFlush,
                 stopFlush, attachesOk, postLog, unattachedPosts, sentOk, truncLost>>
  /\ UNCHANGED exporterRest
  /\ UNCHANGED outsideExporter

(* ---- tailer: scanAndEnqueue ---- *)

\* A scan starts (interval tick), lists the files and reads the file's cursor:
\* an unknown file is stat'ed, a known one is read from its cursor.
ScanStart(s) ==
  /\ FreeScan(s)
  /\ metaOpen /\ ~stopped
  /\ scans' = [scans EXCEPT ![s] =
       IF ~meta.hasCursor
       THEN [IdleScan EXCEPT !.pc = "stat"]
       ELSE [IdleScan EXCEPT !.pc = "read", !.cursor = meta.fileCursor]]
  /\ UNCHANGED <<transcriptLines, notExported, meta, metaOpen, metaDisk, pending,
                 flushTimer, spool, appendLog, stopped, clockPast, ticks, timerFlush,
                 stopFlush, attachesOk, postLog, unattachedPosts, sentOk, truncLost>>
  /\ UNCHANGED exporterRest
  /\ UNCHANGED outsideExporter

\* The offset a file without a cursor is read from when its stat gave nothing:
\* existingCursor?.offset ?? 0.
CursorWithoutStat == 0

\* First discovery without backfill, fs.stat(absPath).catch(() => null) settles.
\* A stat: the cursor is set to the file's size, and as the scan produced no
\* events the changed cursor is written to meta.json.  No stat: the scan goes on
\* to read the file from CursorWithoutStat.
ScanStatReturns(s, statOk) ==
  /\ scans[s].pc = "stat"
  /\ presentAtDiscovery' = presentAtDiscovery \cup (1..transcriptLines)
  /\ IF ~statOk
     THEN /\ scans' = [scans EXCEPT ![s] =
               [IdleScan EXCEPT !.pc = "read", !.cursor = CursorWithoutStat]]
          /\ UNCHANGED <<meta, metaDisk, notExported>>
     ELSE /\ scans' = [scans EXCEPT ![s] = IdleScan]
          /\ IF ~metaOpen
             THEN UNCHANGED <<meta, metaDisk, notExported>>
             ELSE /\ meta' = [meta EXCEPT !.hasCursor = TRUE,
                                          !.fileCursor = transcriptLines]
                  /\ metaDisk' = meta'
                  /\ notExported' = notExported \cup
                       {l \in 1..transcriptLines :
                          l \notin Range(appendLog) \cup Range(pending)}
  /\ UNCHANGED <<transcriptLines, metaOpen, pending, flushTimer, spool, appendLog,
                 stopped, clockPast, ticks, timerFlush, stopFlush, attachesOk, postLog, unattachedPosts, sentOk,
                 truncLost>>
  /\ UNCHANGED <<sessionBound, unboundLines, failureLost>>
  /\ UNCHANGED outsideExporter

\* readAppendedJsonlLines returns the complete lines after the scan's cursor; the
\* cursor in meta moves to nextOffset at once.  No lines: the scan ends, writing
\* meta.json if the cursor changed.  Lines: the session binding is resolved.
ScanReadReturns(s) ==
  /\ scans[s].pc = "read"
  /\ LET cursor == scans[s].cursor
         nextOffset == IF cursor >= transcriptLines THEN cursor ELSE transcriptLines
     IN
     IF ~metaOpen
     THEN /\ scans' = [scans EXCEPT ![s] = IdleScan]
          /\ UNCHANGED <<meta, metaDisk>>
     ELSE /\ meta' = IF nextOffset # cursor
                     THEN [meta EXCEPT !.hasCursor = TRUE, !.fileCursor = nextOffset]
                     ELSE meta
          /\ IF nextOffset = cursor
             THEN /\ scans' = [scans EXCEPT ![s] = IdleScan]
                  /\ UNCHANGED metaDisk
             ELSE /\ scans' = [scans EXCEPT ![s] = [pc |-> "bind", cursor |-> cursor,
                                                    upTo |-> nextOffset]]
                  /\ UNCHANGED metaDisk
  /\ UNCHANGED <<transcriptLines, notExported, metaOpen, pending, flushTimer, spool,
                 appendLog, stopped, clockPast, ticks, timerFlush, stopFlush, attachesOk, postLog, unattachedPosts, sentOk, truncLost>>
  /\ UNCHANGED exporterRest
  /\ UNCHANGED outsideExporter

\* "Only export sessions explicitly labeled with an SK routing label":
\* if (!binding) continue.
SkipsNoFile(bound) == FALSE
SkipsFile(bound) == ~bound

\* resolveSessionBinding returns.  A binding: the events are normalised and
\* pushed onto pending (enqueueEvents) and the debounce timer is armed
\* (scheduleFlush).  No binding: the lines yield nothing, and as the scan has no
\* events and the cursor changed, writeJsonFile(metaPath, meta) runs, which after
\* stop() writes null, read back by loadMeta as the default meta.
ScanBindingReturns(s) ==
  /\ scans[s].pc = "bind"
  /\ scans' = [scans EXCEPT ![s] = IdleScan]
  /\ unboundLines' = IF sessionBound THEN unboundLines
                     ELSE unboundLines \cup ((scans[s].cursor + 1)..scans[s].upTo)
  /\ IF SkipsFile(sessionBound)
     THEN /\ notExported' = notExported \cup ((scans[s].cursor + 1)..scans[s].upTo)
          /\ metaDisk' = IF metaOpen THEN meta ELSE buildDefaultMeta
          /\ UNCHANGED <<pending, flushTimer>>
     ELSE /\ IF metaOpen
             THEN /\ pending' = pending \o LinesAsEvents(scans[s].cursor, scans[s].upTo)
                  /\ flushTimer' = TRUE
             ELSE UNCHANGED <<pending, flushTimer>>
          /\ UNCHANGED <<notExported, metaDisk>>
  /\ UNCHANGED <<transcriptLines, meta, metaOpen, spool,
                 appendLog, stopped, clockPast, ticks, timerFlush, stopFlush,
                 attachesOk, postLog, unattachedPosts, sentOk, truncLost>>
  /\ UNCHANGED <<sessionBound, failureLost, presentAtDiscovery>>
  /\ UNCHANGED outsideExporter

\* The session's entry in sessions.json is given an SK routing label.
SessionLabelled ==
  /\ ~sessionBound
  /\ sessionBound' = TRUE
  /\ UNCHANGED <<transcriptLines, notExported, meta, metaOpen, metaDisk, pending,
                 flushTimer, spool, appendLog, stopped, clockPast, scans, ticks,
                 timerFlush, stopFlush, attachesOk, postLog, unattachedPosts, sentOk,
                 truncLost, unboundLines, failureLost, presentAtDiscovery>>
  /\ UNCHANGED outsideExporter

(* ---- flush: maybeFlush from the debounce timer ---- *)

\* The debounce timer fires: maybeFlush takes the whole of pending as its batch
\* and issues the append; with nothing pending it returns at once.
FlushTimerFires ==
  /\ flushTimer
  /\ timerFlush.pc = "idle"
  /\ flushTimer' = FALSE
  /\ IF pending = <<>>
     THEN UNCHANGED <<pending, timerFlush>>
     ELSE /\ timerFlush' = [pc |-> "append", batch |-> pending]
          /\ pending' = <<>>
  /\ UNCHANGED <<transcriptLines, notExported, meta, metaOpen, metaDisk, spool,
                 appendLog, stopped, clockPast, scans, ticks, stopFlush, attachesOk,
                 postLog, unattachedPosts,
                 sentOk, truncLost>>
  /\ UNCHANGED exporterRest
  /\ UNCHANGED outsideExporter

\* maybeFlush after its append: if (meta) writeJsonFile(metaPath, meta).
MetaAfterFlush(disk, m, open) == IF open THEN m ELSE disk

\* The timer's append lands in spool.jsonl, then meta.json is written.
TimerFlushAppended ==
  /\ timerFlush.pc = "append"
  /\ spool' = spool \o timerFlush.batch
  /\ appendLog' = FirstAppends(appendLog, timerFlush.batch)
  /\ metaDisk' = MetaAfterFlush(metaDisk, meta, metaOpen)
  /\ timerFlush' = NoFlush
  /\ UNCHANGED <<transcriptLines, notExported, meta, metaOpen, pending, flushTimer,
                 stopped, clockPast, scans, ticks, stopFlush, attachesOk, postLog, unattachedPosts, sentOk,
                 truncLost>>
  /\ UNCHANGED exporterRest
  /\ UNCHANGED outsideExporter

(* ---- sender: the 250 ms tick, maybeFlush then processSpool ---- *)

\* processSpool up to its first await: it returns when meta is gone, the service
\* is stopped, the backoff has not elapsed or there is no spool file; otherwise
\* it reads the line at meta.spoolOffset.
EnterProcessSpool(spoolExists) ==
  IF \/ ~metaOpen
     \/ stopped
     \/ meta.nextSendAtMs # Undefined /\ ~clockPast
     \/ ~spoolExists
  THEN IdleTick
  ELSE [IdleTick EXCEPT !.pc = "read", !.offset = meta.spoolOffset]

\* The sender interval fires.  Nothing guards against an earlier tick that is
\* still awaiting a post.
TickStart(t) ==
  /\ FreeTick(t)
  /\ ~stopped
  /\ IF pending = <<>>
     THEN /\ ticks' = [ticks EXCEPT ![t] = EnterProcessSpool(appendLog # <<>> \/ spool # <<>>)]
          /\ UNCHANGED pending
     ELSE /\ ticks' = [ticks EXCEPT ![t] = [IdleTick EXCEPT !.pc = "flush",
                                                            !.batch = pending]]
          /\ pending' = <<>>
  /\ UNCHANGED <<transcriptLines, notExported, meta, metaOpen, metaDisk, flushTimer,
                 spool, appendLog, stopped, clockPast, scans, timerFlush, stopFlush,
                 attachesOk, postLog, unattachedPosts, sentOk, truncLost>>
  /\ UNCHANGED exporterRest
  /\ UNCHANGED outsideExporter

\* The tick's append lands, meta.json is written, processSpool is entered.
TickFlushAppended(t) ==
  /\ ticks[t].pc = "flush"
  /\ spool' = spool \o ticks[t].batch
  /\ appendLog' = FirstAppends(appendLog, ticks[t].batch)
  /\ metaDisk' = MetaAfterFlush(metaDisk, meta, metaOpen)
  /\ ticks' = [ticks EXCEPT ![t] = EnterProcessSpool(TRUE)]
  /\ UNCHANGED <<transcriptLines, notExported, meta, metaOpen, pending, flushTimer,
                 stopped, clockPast, scans, timerFlush, stopFlush, attachesOk, postLog, unattachedPosts, sentOk,
                 truncLost>>
  /\ UNCHANGED exporterRest
  /\ UNCHANGED outsideExporter

\* ensureAttached posts an Attach unless the session is flagged attached; it also
\* returns without attaching when meta is null.
NeedsAttach == metaOpen /\ ~meta.attached

\* postJson is called with the message of event ev.
MessagePosted(ev, attached) ==
  /\ postLog' = IF ev \in Range(postLog) THEN postLog ELSE Append(postLog, ev)
  /\ unattachedPosts' = IF attached THEN unattachedPosts ELSE unattachedPosts \cup {ev}

\* if (!line): readNextJsonlLine found no complete line (line null), or the
\* line it returned is the empty string.
TakenAsDrained(rest) == rest = <<>> \/ Head(rest) = Blank

\* JSON.parse(line) throws.
ParseThrows(line) == ~IsEvent(line)

\* readNextJsonlLine returns.  Nothing taken as a line: the spool's size is
\* stat'ed.  A line JSON.parse refuses: spoolOffset moves past it and the next
\* line is read (with meta null the assignment throws and the tick ends).  An
\* event: sendEvent runs up to its first post, the Attach or the message itself.
TickReadReturns(t) ==
  /\ ticks[t].pc = "read"
  /\ LET offset == ticks[t].offset
         rest == SubSeq(spool, offset + 1, Len(spool))
     IN
     IF TakenAsDrained(rest)
     THEN /\ ticks' = [ticks EXCEPT ![t] = [@ EXCEPT !.pc = "stat"]]
          /\ UNCHANGED <<postLog, unattachedPosts, meta>>
     ELSE IF ParseThrows(Head(rest))
     THEN /\ IF metaOpen
             THEN /\ meta' = [meta EXCEPT !.spoolOffset = offset + 1]
                  /\ ticks' = [ticks EXCEPT ![t] = [@ EXCEPT !.offset = offset + 1]]
             ELSE /\ ticks' = [ticks EXCEPT ![t] = IdleTick]
                  /\ UNCHANGED meta
          /\ UNCHANGED <<postLog, unattachedPosts>>
     ELSE /\ ticks' = [ticks EXCEPT ![t] =
               [@ EXCEPT !.pc = IF NeedsAttach THEN "attach" ELSE "post",
                         !.ev = Head(rest), !.nextOffset = offset + 1]]
          /\ IF NeedsAttach
             THEN UNCHANGED <<postLog, unattachedPosts>>
             ELSE MessagePosted(Head(rest), attachesOk > 0)
          /\ UNCHANGED meta
  /\ UNCHANGED <<transcriptLines, notExported, metaOpen, metaDisk, pending,
                 flushTimer, spool, appendLog, stopped, clockPast, scans, timerFlush,
                 stopFlush, attachesOk, sentOk, truncLost>>
  /\ UNCHANGED exporterRest
  /\ UNCHANGED outsideExporter

\* What the catch is to leave behind: one more consecutive failure, a time of
\* the next send, and meta.json holding both.
FailureRecorded ==
  /\ metaOpen
  /\ meta'.consecutiveFailures = meta.consecutiveFailures + 1
  /\ meta'.nextSendAtMs # Undefined
  /\ metaDisk' = meta'

\* processSpool's catch: count the failure, set the backoff, write meta.json and
\* end the tick.  With meta null the catch itself throws and the tick ends.
SendFailed(t) ==
  /\ metaOpen => meta.consecutiveFailures < MaxFailures
  /\ ticks' = [ticks EXCEPT ![t] = IdleTick]
  /\ IF metaOpen
     THEN /\ meta' = [meta EXCEPT !.consecutiveFailures = @ + 1,
                                  !.nextSendAtMs = "set"]
          /\ metaDisk' = meta'
          /\ clockPast' = FALSE
     ELSE UNCHANGED <<meta, metaDisk, clockPast>>
  /\ failureLost' = (failureLost \/ ~FailureRecorded)

\* The Attach post settles.  Success: the session is flagged, meta.json written,
\* and the message is posted.  Failure: ensureAttached throws.
TickAttachReturns(t, resp) ==
  /\ ticks[t].pc = "attach"
  /\ IF resp # "ok"
     THEN /\ SendFailed(t)
          /\ UNCHANGED <<attachesOk, postLog, unattachedPosts>>
     ELSE /\ attachesOk' = attachesOk + 1
          /\ UNCHANGED failureLost
          /\ IF ~metaOpen
             THEN /\ ticks' = [ticks EXCEPT ![t] = IdleTick]
                  /\ UNCHANGED <<meta, metaDisk, clockPast, postLog, unattachedPosts>>
             ELSE /\ meta' = [meta EXCEPT !.attached = TRUE]
                  /\ metaDisk' = meta'
                  /\ MessagePosted(ticks[t].ev, TRUE)
                  /\ ticks' = [ticks EXCEPT ![t] = [@ EXCEPT !.pc = "post"]]
                  /\ UNCHANGED clockPast
  /\ UNCHANGED <<transcriptLines, notExported, metaOpen, pending, flushTimer, spool,
                 appendLog, stopped, scans, timerFlush, stopFlush, sentOk, truncLost>>
  /\ UNCHANGED <<sessionBound, unboundLines, presentAtDiscovery>>
  /\ UNCHANGED outsideExporter

\* meta.spoolOffset = nextOffset after sendEvent returned.
OffsetAfterSend(nextOffset, current) == nextOffset

\* The message post settles.  Success: spoolOffset moves to the tick's
\* nextOffset, the failure state is cleared, meta.json is written and the next
\* line is read.  Failure: processSpool's catch.
TickPostReturns(t, resp) ==
  /\ ticks[t].pc = "post"
  /\ IF resp # "ok"
     THEN /\ SendFailed(t)
          /\ UNCHANGED sentOk
     ELSE /\ sentOk' = sentOk \cup {ticks[t].ev}
          /\ UNCHANGED failureLost
          /\ IF ~metaOpen
             THEN /\ ticks' = [ticks EXCEPT ![t] = IdleTick]
                  /\ UNCHANGED <<meta, metaDisk, clockPast>>
             ELSE /\ meta' = [meta EXCEPT
                       !.spoolOffset = OffsetAfterSend(ticks[t].nextOffset, @),
                       !.consecutiveFailures = 0,
                       !.nextSendAtMs = Undefined]
                  /\ metaDisk' = meta'
                  /\ ticks' = [ticks EXCEPT ![t] =
                       [IdleTick EXCEPT !.pc = "read", !.offset = meta'.spoolOffset]]
                  /\ UNCHANGED clockPast
  /\ UNCHANGED <<transcriptLines, notExported, metaOpen, pending, flushTimer, spool,
                 appendLog, stopped, scans, timerFlush, stopFlush, attachesOk, postLog, unattachedPosts, truncLost>>
  /\ UNCHANGED <<sessionBound, unboundLines, presentAtDiscovery>>
  /\ UNCHANGED outsideExporter

\* The stat after an empty read returns: a fully drained, non-empty spool is
\* rewritten to empty; otherwise the tick ends.
TickStatReturns(t) ==
  /\ ticks[t].pc = "stat"
  /\ ticks' = [ticks EXCEPT ![t] =
       IF metaOpen /\ meta.spoolOffset >= Len(spool) /\ Len(spool) > 0
       THEN [@ EXCEPT !.pc = "truncate", !.statSize = Len(spool)]
       ELSE IdleTick]
  /\ UNCHANGED <<transcriptLines, notExported, meta, metaOpen, metaDisk, pending,
                 flushTimer, spool, appendLog, stopped, clockPast, scans, timerFlush,
                 stopFlush, attachesOk, postLog, unattachedPosts, sentOk, truncLost>>
  /\ UNCHANGED exporterRest
  /\ UNCHANGED outsideExporter

\* fs.writeFile(spoolPath, "") lands: spool.jsonl is empty on disk, and the
\* tick waits for its continuation.
TickTruncateLands(t) ==
  /\ ticks[t].pc = "truncate"
  /\ spool' = <<>>
  /\ truncLost' = truncLost \cup
       ({spool[i] : i \in (ticks[t].statSize + 1)..Len(spool)} \ sentOk)
  /\ ticks' = [ticks EXCEPT ![t] = [@ EXCEPT !.pc = "truncated"]]
  /\ UNCHANGED <<transcriptLines, notExported, meta, metaOpen, metaDisk, pending,
                 flushTimer, appendLog, stopped, clockPast, scans, timerFlush,
                 stopFlush, attachesOk, postLog, unattachedPosts, sentOk>>
  /\ UNCHANGED exporterRest
  /\ UNCHANGED outsideExporter

\* The tick resumes after the truncation: spoolOffset is reset and meta.json
\* written.  With meta null the assignment throws and the tick ends.
TickTruncated(t) ==
  /\ ticks[t].pc = "truncated"
  /\ IF metaOpen
     THEN /\ meta' = [meta EXCEPT !.spoolOffset = 0]
          /\ metaDisk' = meta'
     ELSE UNCHANGED <<meta, metaDisk>>
  /\ ticks' = [ticks EXCEPT ![t] = IdleTick]
  /\ UNCHANGED <<transcriptLines, notExported, metaOpen, pending, flushTimer, spool,
                 appendLog, stopped, clockPast, scans, timerFlush, stopFlush,
                 attachesOk, postLog, unattachedPosts, sentOk, truncLost>>
  /\ UNCHANGED exporterRest
  /\ UNCHANGED outsideExporter

(* ---- stop ---- *)

\* stop(): the flag is set, the timers are cleared and maybeFlush takes pending.
Stop ==
  /\ ~stopped
  /\ stopped' = TRUE
  /\ flushTimer' = FALSE
  /\ stopFlush' = [pc |-> "append", batch |-> pending]
  /\ pending' = <<>>
  /\ UNCHANGED <<transcriptLines, notExported, meta, metaOpen, metaDisk, spool,
                 appendLog, clockPast, scans, ticks, timerFlush, attachesOk, postLog, unattachedPosts, sentOk,
                 truncLost>>
  /\ UNCHANGED exporterRest
  /\ UNCHANGED outsideExporter

\* stop() after its flush: meta.json is written one last time and meta = null.
StopCompletes ==
  /\ stopFlush.pc = "append"
  /\ spool' = spool \o stopFlush.batch
  /\ appendLog' = FirstAppends(appendLog, stopFlush.batch)
  /\ metaDisk' = meta
  /\ metaOpen' = FALSE
  /\ stopFlush' = [pc |-> "done", batch |-> <<>>]
  /\ UNCHANGED <<transcriptLines, notExported, meta, pending, flushTimer, stopped,
                 clockPast, scans, ticks, timerFlush, attachesOk, postLog, unattachedPosts, sentOk, truncLost>>
  /\ UNCHANGED exporterRest
  /\ UNCHANGED outsideExporter

ExporterNext ==
  \/ TranscriptAppend
  \/ BackoffElapses
  \/ \E s \in ScanSlots : ScanStart(s)
  \/ \E s \in ScanSlots, statOk \in BOOLEAN : ScanStatReturns(s, statOk)
  \/ \E s \in ScanSlots : ScanReadReturns(s)
  \/ \E s \in ScanSlots : ScanBindingReturns(s)
  \/ FlushTimerFires
  \/ TimerFlushAppended
  \/ \E t \in TickSlots : TickStart(t)
  \/ \E t \in TickSlots : TickFlushAppended(t)
  \/ \E t \in TickSlots : TickReadReturns(t)
  \/ \E t \in TickSlots, resp \in Responses : TickAttachReturns(t, resp)
  \/ \E t \in TickSlots, resp \in Responses : TickPostReturns(t, resp)
  \/ \E t \in TickSlots : TickStatReturns(t)
  \/ \E t \in TickSlots : TickTruncateLands(t)
  \/ \E t \in TickSlots : TickTruncated(t)
  \/ Stop
  \/ StopCompletes

\* C2: whenever meta.json is written, the file cursor it records is not beyond
\* the last line whose events have already been appended to spool.jsonl.
C2_PersistedCursorBehindSpool ==
  \A l \in 1..metaDisk.fileCursor : l \in notExported \/ l \in Range(appendLog)

\* C3: spoolOffset advances past a spool event only after the send of that event
\* succeeded.
C3_OffsetOnlyPastSentEvents ==
  metaOpen =>
    \A i \in 1..Len(spool) :
      i <= meta.spoolOffset /\ IsEvent(spool[i]) => spool[i] \in sentOk

\* C4: no flush append lands between processSpool observing the spool drained and
\* its rewrite of the file to empty, so the truncation discards no unsent event.
C4_TruncateDiscardsNothingUnsent == truncLost = {}

\* C5: no message post for the session is issued before an Attach for the session
\* has completed successfully.
C5_AttachBeforeAnyPost == unattachedPosts = {}

\* C6: at most one Attach-RUNNING post per sessionKey succeeds.
C6_AtMostOneSuccessfulAttach == attachesOk <= 1

\* C7: events of one transcript file are appended to the spool, and first posted,
\* in file order.
C7_FileOrder ==
  /\ \A i, j \in 1..Len(appendLog) : i < j => appendLog[i] < appendLog[j]
  /\ \A i, j \in 1..Len(postLog) : i < j => postLog[i] < postLog[j]
  /\ \A e \in Range(postLog) : \A d \in 1..(e - 1) : d \in notExported \/ d \in Range(postLog)

\* The events in memory or in flight to the spool.
EventsHeld ==
  Range(pending) \cup Range(timerFlush.batch) \cup Range(stopFlush.batch)
    \cup UNION {Range(ticks[t].batch) : t \in TickSlots}

\* The events some post was issued for, the posts in flight included.
EventsPosted ==
  Range(postLog) \cup {ticks[t].ev : t \in {u \in TickSlots : ticks[u].pc = "post"}}

\* C25: whenever meta.json is written, the spoolOffset it records lies between 0
\* and the size of spool.jsonl at that moment (every spool line being one byte
\* long, every such offset starts a line), overlapping sender ticks included.
C25_PersistedOffsetInsideSpool ==
  [][metaDisk' # metaDisk =>
       (metaDisk'.spoolOffset >= 0 /\ metaDisk'.spoolOffset <= Len(spool'))]_vars

\* C26: the drain's rewrite of spool.jsonl to empty and the reset of spoolOffset
\* are one atomic change of the disk: once the rewrite has landed, meta.json
\* never still holds a non-zero spoolOffset.
C26_TruncateAndResetAtomic ==
  \A t \in TickSlots : ticks[t].pc = "truncated" => metaDisk.spoolOffset = 0

\* C28: when the send of a spool event fails, consecutiveFailures grows by one,
\* nextSendAtMs is set, meta.json holds both, and the tick ends without another
\* send.
C28_FailureCountedAndPersisted == ~failureLost

\* C29: a tick that reads a spool line that is not valid JSON moves spoolOffset
\* past it and reads on, posting nothing for it and leaving consecutiveFailures
\* and nextSendAtMs as they were.
C29_MalformedLineSkipped ==
  [][\A t \in TickSlots :
       (/\ ticks[t].pc = "read"
        /\ ticks'[t] # ticks[t]
        /\ metaOpen
        /\ ticks[t].offset < Len(spool)
        /\ ~IsEvent(spool[ticks[t].offset + 1]))
       => (/\ meta'.spoolOffset = ticks[t].offset + 1
           /\ ticks'[t].pc = "read"
           /\ postLog' = postLog
           /\ meta'.consecutiveFailures = meta.consecutiveFailures
           /\ meta'.nextSendAtMs = meta.nextSendAtMs)]_vars

\* C31: no line the file held when it was first discovered, with no cursor and no
\* backfill, is in an event held, spooled or posted.
C31_NoLineAtDiscoveryExported ==
  \A l \in presentAtDiscovery :
    l \notin EventsHeld \cup Range(spool) \cup Range(appendLog) \cup EventsPosted

MaxBufferedBytes == 3
\* Largest serialized frame.
MaxFrameBytes == 2
\* Calls of socket.send explored.
MaxWsSends == 3

\* What the caller hands to send(obj): a value that serializes to a frame of
\* `bytes` bytes, one whose JSON.stringify throws (cyclic, BigInt, throwing
\* toJSON), or one for which JSON.stringify returns undefined.
WsObjects ==
  {[kind |-> "json", bytes |-> n] : n \in 1..MaxFrameBytes}
    \cup {[kind |-> "throws", bytes |-> 0], [kind |-> "undefined", bytes |-> 0]}

NoSend == [called |-> FALSE, bufferedBefore |-> 0, kind |-> "", wasClosed |-> FALSE,
           closeCalled |-> FALSE, wrote |-> FALSE, threw |-> FALSE]

\* Client records the message handler may hand to setClient, and the client of
\* another connection that shares the set.
WsClients == {"client-1", "client-2"}
OtherClient == "client-0"

NoCauseCalls == [first |-> Null, later |-> {}, lastMeta |-> <<>>]

\* The connection callback has run up to the send of connect.challenge.
WsInit ==
  /\ wsBufferedAmount = 0
  /\ wsClosed = FALSE
  /\ wsCloseCause = Null
  /\ wsSends = 0
  /\ wsLast = NoSend
  /\ closeCause = Null
  /\ closeMeta = <<>>
  /\ client = Null
  /\ clients = {OtherClient}
  /\ handshakeTimer = "unset"
  /\ handshakeState = "pending"
  /\ socketCloseCalls = 0
  /\ causeCalls = NoCauseCalls

\* { ...closeMeta, ...meta }
MetaMerge(old, callMeta) ==
  [k \in DOMAIN old \cup DOMAIN callMeta |-> IF k \in DOMAIN callMeta THEN callMeta[k] ELSE old[k]]

\* Faulty variant of setCloseCause: the latest cause wins.
setCloseCauseLatest(cause, callMeta, oldCause, oldMeta) ==
  [closeCause |-> cause,
   closeMeta |-> IF DOMAIN callMeta # {} THEN MetaMerge(oldMeta, callMeta) ELSE oldMeta]

\* setCloseCause as a function of closeCause and closeMeta.
setCloseCause(cause, callMeta, oldCause, oldMeta) ==
  [closeCause |-> IF oldCause = Null THEN cause ELSE oldCause,
   closeMeta |-> IF DOMAIN callMeta # {} THEN MetaMerge(oldMeta, callMeta) ELSE oldMeta]

\* A call of setCloseCause on the connection.
CallSetCloseCause(cause, callMeta) ==
  LET set == setCloseCause(cause, callMeta, closeCause, closeMeta)
  IN /\ closeCause' = set.closeCause
     /\ closeMeta' = set.closeMeta
     /\ causeCalls' = IF causeCalls.first = Null
                      THEN [first |-> cause, later |-> {}, lastMeta |-> callMeta]
                      ELSE [causeCalls EXCEPT !.later = @ \cup {cause},
                                              !.lastMeta = callMeta]

\* close(): nothing on a closed connection; else the timer is cleared, the
\* client leaves the shared set and socket.close is called.
Close ==
  IF wsClosed
  THEN UNCHANGED <<wsClosed, handshakeTimer, clients, socketCloseCalls>>
  ELSE /\ wsClosed' = TRUE
       /\ handshakeTimer' = IF handshakeTimer = "unset" THEN "unset" ELSE "cleared"
       /\ clients' = IF client # Null THEN clients \ {client} ELSE clients
       /\ socketCloseCalls' = socketCloseCalls + 1

\* The pre-stringify check on bufferedBefore.
ClosesBeforeStringify(bufferedBefore, maxBufferedBytes) ==
  bufferedBefore > maxBufferedBytes

\* The pre-send check on the serialized frame.
ClosesBeforeSend(bufferedBefore, frameBytes, maxBufferedBytes) ==
  bufferedBefore + frameBytes > maxBufferedBytes

\* closeForBackpressure: the close cause is recorded and close(1008) is called;
\* close() itself does nothing on a connection already closed.
CloseForBackpressure(phase, callMeta) ==
  /\ wsCloseCause' = phase
  /\ CallSetCloseCause("ws-backpressure", callMeta)
  /\ Close
  /\ UNCHANGED <<client, handshakeState>>

\* One call of the guarded send, start to end (it has no await).
GuardedSend(obj) ==
  /\ wsSends < MaxWsSends
  /\ (handshakeTimer = "unset") => (~wsLast.called /\ obj.kind = "json")
  /\ LET bufferedBefore == wsBufferedAmount
         call == [NoSend EXCEPT !.called = TRUE, !.bufferedBefore = bufferedBefore,
                                !.kind = obj.kind, !.wasClosed = wsClosed]
     IN IF ClosesBeforeStringify(bufferedBefore, MaxBufferedBytes)
        THEN /\ CloseForBackpressure("pre-stringify",
                                     [phase |-> "pre-stringify",
                                      bufferedBefore |-> bufferedBefore])
             /\ wsLast' = [call EXCEPT !.closeCalled = TRUE]
             /\ UNCHANGED <<wsBufferedAmount, wsSends>>
        ELSE IF obj.kind = "throws"
        THEN /\ wsLast' = call
             /\ UNCHANGED <<wsBufferedAmount, wsSends, wsClosed, wsCloseCause, wsConnVars>>
        ELSE IF obj.kind = "undefined"
        THEN /\ wsLast' = [call EXCEPT !.threw = TRUE]
             /\ UNCHANGED <<wsBufferedAmount, wsSends, wsClosed, wsCloseCause, wsConnVars>>
        ELSE IF ClosesBeforeSend(bufferedBefore, obj.bytes, MaxBufferedBytes)
        THEN /\ CloseForBackpressure("pre-send",
                                     [phase |-> "pre-send",
                                      bufferedBefore |-> bufferedBefore,
                                      frameBytes |-> obj.bytes])
             /\ wsLast' = [call EXCEPT !.closeCalled = TRUE]
             /\ UNCHANGED <<wsBufferedAmount, wsSends>>
        ELSE /\ wsLast' = [call EXCEPT !.wrote = TRUE]
             /\ wsSends' = wsSends + 1
             /\ wsBufferedAmount' = IF wsClosed THEN wsBufferedAmount
                                    ELSE wsBufferedAmount + obj.bytes
             /\ UNCHANGED <<wsClosed, wsCloseCause, wsConnVars>>
  /\ UNCHANGED outsideWs

\* The peer reads: the socket's send queue shrinks.
SocketDrains(n) ==
  /\ n \in 1..wsBufferedAmount
  /\ wsBufferedAmount' = wsBufferedAmount - n
  /\ UNCHANGED <<wsClosed, wsCloseCause, wsSends, wsLast, wsConnVars>>
  /\ UNCHANGED outsideWs

\* The ws library queues a frame of its own (a pong, a close frame): the
\* queue grows without a guarded send.
SocketQueuesOwnFrame ==
  /\ wsBufferedAmount <= MaxBufferedBytes
  /\ wsBufferedAmount' = wsBufferedAmount + 1
  /\ UNCHANGED <<wsClosed, wsCloseCause, wsSends, wsLast, wsConnVars>>
  /\ UNCHANGED outsideWs

\* handshakeTimer = setTimeout(...): the last step of the connection callback
\* before the message handler is attached.
ArmHandshakeTimer ==
  /\ handshakeTimer = "unset"
  /\ wsLast.called
  /\ handshakeTimer' = "armed"
  /\ UNCHANGED <<wsBufferedAmount, wsClosed, wsCloseCause, wsSends, wsLast, closeCause,
                 closeMeta, client, clients, handshakeState, socketCloseCalls,
                 causeCalls>>
  /\ UNCHANGED outsideWs

\* The handshake timer expires: without a client the cause is recorded and
\* close() runs (there is no client to take out of the shared set).
HandshakeTimerFires ==
  /\ handshakeTimer = "armed"
  /\ IF client = Null
     THEN /\ handshakeState' = "failed"
          /\ CallSetCloseCause("handshake-timeout", [handshakeMs |-> 1])
          /\ IF wsClosed
             THEN /\ handshakeTimer' = "fired"
                  /\ UNCHANGED <<wsClosed, clients, socketCloseCalls>>
             ELSE /\ wsClosed' = TRUE
                  /\ handshakeTimer' = "cleared"
                  /\ socketCloseCalls' = socketCloseCalls + 1
                  /\ UNCHANGED clients
     ELSE /\ handshakeTimer' = "fired"
          /\ UNCHANGED <<wsClosed, closeCause, closeMeta, clients, handshakeState,
                         socketCloseCalls, causeCalls>>
  /\ UNCHANGED <<wsBufferedAmount, wsCloseCause, wsSends, wsLast, client>>
  /\ UNCHANGED outsideWs

\* clearHandshakeTimer(), called by the message handler.
ClearHandshakeTimer ==
  /\ handshakeTimer = "armed"
  /\ handshakeTimer' = "cleared"
  /\ UNCHANGED <<wsBufferedAmount, wsClosed, wsCloseCause, wsSends, wsLast, closeCause,
                 closeMeta, client, clients, handshakeState, socketCloseCalls,
                 causeCalls>>
  /\ UNCHANGED outsideWs

\* setClient(next), called by the message handler.
SetClient(next) ==
  /\ handshakeTimer # "unset"
  /\ client' = next
  /\ clients' = clients \cup {next}
  /\ UNCHANGED <<wsBufferedAmount, wsClosed, wsCloseCause, wsSends, wsLast, closeCause,
                 closeMeta, handshakeTimer, handshakeState, socketCloseCalls,
                 causeCalls>>
  /\ UNCHANGED outsideWs

\* setHandshakeState(next), called by the message handler.
SetHandshakeState(next) ==
  /\ handshakeTimer # "unset"
  /\ handshakeState # next
  /\ handshakeState' = next
  /\ UNCHANGED <<wsBufferedAmount, wsClosed, wsCloseCause, wsSends, wsLast, closeCause,
                 closeMeta, client, clients, handshakeTimer, socketCloseCalls,
                 causeCalls>>
  /\ UNCHANGED outsideWs

\* close() from the socket's "error" or "close" event, or from the message
\* handler.
CloseCalled ==
  /\ handshakeTimer # "unset"
  /\ ~wsClosed
  /\ Close
  /\ UNCHANGED <<wsBufferedAmount, wsCloseCause, wsSends, wsLast, closeCause, closeMeta,
                 client, handshakeState, causeCalls>>
  /\ UNCHANGED outsideWs

WsNext ==
  \/ \E obj \in WsObjects : GuardedSend(obj)
  \/ \E n \in 1..(MaxBufferedBytes + 1) : SocketDrains(n)
  \/ SocketQueuesOwnFrame
  \/ ArmHandshakeTimer
  \/ HandshakeTimerFires
  \/ ClearHandshakeTimer
  \/ \E next \in WsClients : SetClient(next)
  \/ \E next \in {"connected", "failed"} : SetHandshakeState(next)
  \/ CloseCalled

\* C14: a guarded send that finds bufferedAmount >= maxBufferedBytes closes the
\* socket and does not write to it.
C14_ClosedAtLimitWithoutWrite ==
  (wsLast.called /\ wsLast.bufferedBefore >= MaxBufferedBytes) =>
    /\ ~wsLast.wrote
    /\ wsLast.closeCalled \/ wsLast.wasClosed

\* C39: closeCause is write-once: after the first setCloseCause call the
\* recorded cause stays that call's cause, and a later call only merges its
\* metadata into closeMeta.
C39_CloseCauseWrittenOnce ==
  causeCalls.first # Null =>
    /\ closeCause = causeCalls.first
    /\ \A k \in DOMAIN causeCalls.lastMeta :
         k \in DOMAIN closeMeta /\ closeMeta[k] = causeCalls.lastMeta[k]

\* C39 witness: the connect.challenge send closed the connection for
\* backpressure, the handshake timer fired afterwards, and the cause is still
\* "ws-backpressure" with the metadata of both calls.
C39_Witness ==
  /\ causeCalls.first = "ws-backpressure"
  /\ "handshake-timeout" \in causeCalls.later
  /\ closeCause = "ws-backpressure"
  /\ {"phase", "handshakeMs"} \subseteq DOMAIN closeMeta

\* C40: once close() has run, the connection's client is not in the shared
\* clients set, also when setClient runs after the close, and socket.close has
\* been called at most once.
C40_ClosedClientNotInClients ==
  wsClosed =>
    /\ client # Null => client \notin clients
    /\ socketCloseCalls <= 1

(***************************************************************************)
(* Telegram: voice-send deduper (voice-dedupe.ts)                          *)
(***************************************************************************)

\* DEFAULT_WINDOW_MS, MAX_CHATS and MAX_FINGERPRINTS_PER_CHAT, scaled down.
DEFAULT_WINDOW_MS == 1
MAX_CHATS == 1
MAX_FINGERPRINTS_PER_CHAT == 2
\* How far the clock runs.
MaxNow == 3

\* accountId and chatId are strings split at ":"; two of the pairs below
\* concatenate to the same chat key.
DedupeChats ==
  { [accountId |-> <<"a">>, chatId |-> <<"1">>],
    [accountId |-> <<"a", "b">>, chatId |-> <<"1">>],
    [accountId |-> <<"a">>, chatId |-> <<"b", "1">>] }
\* sha256 hex digests.
Fingerprints == {"f1", "f2", "f3"}

NoDedupeCall == [called |-> FALSE, accountId |-> <<>>, chatId |-> <<>>,
                 fingerprint |-> "", now |-> 0, result |-> FALSE,
                 lapsed |-> FALSE, hitSince |-> FALSE]

\* One busy chat beside its neighbours.
BusyChat == [accountId |-> <<"a">>, chatId |-> <<"1">>]

NotRecorded == [set |-> FALSE, ts |-> 0, hit |-> FALSE]

DedupeInit ==
  /\ voiceDedupeByChat = <<>>
  /\ dedupeNow = 0
  /\ dedupeLast = NoDedupeCall
  /\ dedupePrev = NoDedupeCall
  /\ dedupeEvicted = {}
  /\ dedupeRecorded = NotRecorded

\* `${accountId}:${chatId}`
ChatKey(accountId, chatId) == accountId \o chatId

\* while (map.size > max) delete the oldest key
EvictOldest(seq, max) ==
  IF Len(seq) > max THEN SubSeq(seq, Len(seq) - max + 1, Len(seq)) ELSE seq

touchChat(byChat, key, state) ==
  LET Other(e) == e.key # key
  IN EvictOldest(Append(SelectSeq(byChat, Other), [key |-> key, lru |-> state]),
                 MAX_CHATS)

\* Faulty variant of touchFingerprint: nothing is evicted.
touchFingerprintUnbounded(lru, fp, ts) ==
  LET Other(e) == e.fp # fp
  IN Append(SelectSeq(lru, Other), [fp |-> fp, ts |-> ts])

touchFingerprint(lru, fp, ts) ==
  LET Other(e) == e.fp # fp
  IN EvictOldest(Append(SelectSeq(lru, Other), [fp |-> fp, ts |-> ts]),
                 MAX_FINGERPRINTS_PER_CHAT)

RECURSIVE pruneExpired(_, _, _)
\* Entries are dropped from the head until the first one inside the window.
pruneExpired(lru, now, windowMs) ==
  IF lru = <<>> THEN lru
  ELSE IF now - lru[1].ts <= windowMs THEN lru
  ELSE pruneExpired(Tail(lru), now, windowMs)

\* Faulty variant of WithinWindow: an entry exactly windowMs old is not a duplicate.
WithinWindowExclusive(now, ts, windowMs) == now - ts < windowMs

\* existing && now - existing.ts <= windowMs
WithinWindow(now, ts, windowMs) == now - ts <= windowMs

\* Faulty variant of DuplicateTs: a duplicate hit restarts the window.
DuplicateTsRefreshed(existingTs, now) == now

\* touchFingerprint(state, params.fingerprint, existing.ts)
DuplicateTs(existingTs, now) == existingTs

\* The lru of a chat key, or the empty one a first call creates.
LruOf(byChat, key) ==
  IF \E i \in 1..Len(byChat) : byChat[i].key = key
  THEN byChat[CHOOSE i \in 1..Len(byChat) : byChat[i].key = key].lru
  ELSE <<>>

\* shouldDedupeTelegramVoiceSend as a function of the map: the new map and the
\* returned flag.
shouldDedupe(byChat, accountId, chatId, fingerprint, now, windowMs) ==
  LET chatKey == ChatKey(accountId, chatId)
      pruned == pruneExpired(LruOf(byChat, chatKey), now, windowMs)
      existing == {i \in 1..Len(pruned) : pruned[i].fp = fingerprint}
      duplicate == /\ existing # {}
                   /\ \A i \in existing : WithinWindow(now, pruned[i].ts, windowMs)
      lru == IF duplicate
             THEN touchFingerprint(pruned, fingerprint,
                                   DuplicateTs(pruned[CHOOSE i \in existing : TRUE].ts,
                                               now))
             ELSE touchFingerprint(pruned, fingerprint, now)
  IN [byChat |-> touchChat(byChat, chatKey, lru), result |-> duplicate,
      evicted |-> {m \in {"chat"} : /\ Len(byChat) = MAX_CHATS
                                    /\ \A i \in 1..Len(byChat) : byChat[i].key # chatKey}
                    \cup {m \in {"fp"} : /\ Len(pruned) = MAX_FINGERPRINTS_PER_CHAT
                                         /\ existing = {}}]

\* The voice whose recording time is followed: the other fingerprints and
\* chats compete with it for the slots of both maps.
FollowedVoice == [key |-> ChatKey(BusyChat.accountId, BusyChat.chatId), fp |-> "f1"]

ShouldDedupe(chat, fingerprint) ==
  LET r == shouldDedupe(voiceDedupeByChat, chat.accountId, chat.chatId, fingerprint,
                        dedupeNow, DEFAULT_WINDOW_MS)
      followed == /\ ChatKey(chat.accountId, chat.chatId) = FollowedVoice.key
                  /\ fingerprint = FollowedVoice.fp
      lapsed == /\ followed
                /\ dedupeRecorded.set
                /\ dedupeNow > dedupeRecorded.ts + DEFAULT_WINDOW_MS
  IN /\ voiceDedupeByChat' = r.byChat
     /\ dedupePrev' = dedupeLast
     /\ dedupeLast' = [called |-> TRUE, accountId |-> chat.accountId,
                       chatId |-> chat.chatId, fingerprint |-> fingerprint,
                       now |-> dedupeNow, result |-> r.result,
                       lapsed |-> lapsed,
                       hitSince |-> lapsed /\ dedupeRecorded.hit]
     /\ dedupeEvicted' = dedupeEvicted \cup r.evicted
     /\ dedupeRecorded' =
          IF ~followed THEN dedupeRecorded
          ELSE IF r.result THEN [dedupeRecorded EXCEPT !.hit = TRUE]
          ELSE [set |-> TRUE, ts |-> dedupeNow, hit |-> FALSE]
     /\ UNCHANGED dedupeNow
     /\ UNCHANGED outsideDedupe

DedupeClockTicks ==
  /\ dedupeNow < MaxNow
  /\ dedupeNow' = dedupeNow + 1
  /\ UNCHANGED <<voiceDedupeByChat, dedupeLast, dedupePrev, dedupeEvicted,
                 dedupeRecorded>>
  /\ UNCHANGED outsideDedupe

DedupeNext ==
  \/ \E chat \in DedupeChats, fingerprint \in Fingerprints : ShouldDedupe(chat, fingerprint)
  \/ DedupeClockTicks

\* Any voice goes to the busy chat, the other chats are sent one voice only.
BusyChatNext ==
  \/ \E fingerprint \in Fingerprints : ShouldDedupe(BusyChat, fingerprint)
  \/ \E chat \in DedupeChats \ {BusyChat} : ShouldDedupe(chat, "f1")
  \/ DedupeClockTicks

\* The last two calls named the same (accountId, chatId, fingerprint) and their
\* times lie within the window of each other.
SameVoiceTwiceInWindow ==
  /\ dedupePrev.called /\ dedupeLast.called
  /\ dedupePrev.accountId = dedupeLast.accountId
  /\ dedupePrev.chatId = dedupeLast.chatId
  /\ dedupePrev.fingerprint = dedupeLast.fingerprint
  /\ dedupeLast.now - dedupePrev.now <= DEFAULT_WINDOW_MS

\* C15 as stated: of any two successive calls with the same (accountId, chatId,
\* fingerprint) within windowMs of each other, the first returned false and the
\* second returned true.
C15_FirstFalseSecondTrue ==
  SameVoiceTwiceInWindow => (~dedupePrev.result /\ dedupeLast.result)

\* C15 amended: of two successive calls with the same (accountId, chatId,
\* fingerprint) within windowMs of each other, the second returns true whenever
\* the first returned false.
C15_DuplicateAfterFreshSend ==
  (SameVoiceTwiceInWindow /\ ~dedupePrev.result) => dedupeLast.result

\* C15 witness: a voice was sent, and sent again exactly windowMs later; the
\* first call returned false and the second true.
C15_Witness ==
  /\ SameVoiceTwiceInWindow
  /\ dedupeLast.now = dedupePrev.now + DEFAULT_WINDOW_MS
  /\ ~dedupePrev.result
  /\ dedupeLast.result

\* C16: after every call the chat map holds at most MAX_CHATS chats and every
\* per-chat fingerprint map at most MAX_FINGERPRINTS_PER_CHAT entries.
C16_MapsBounded ==
  /\ Len(voiceDedupeByChat) <= MAX_CHATS
  /\ \A i \in 1..Len(voiceDedupeByChat) :
       Len(voiceDedupeByChat[i].lru) <= MAX_FINGERPRINTS_PER_CHAT

\* C16 witness: calls have pushed both maps past their limits, entries were
\* evicted, and the maps sit at their limits.
C16_Witness ==
  /\ dedupeEvicted = {"chat", "fp"}
  /\ Len(voiceDedupeByChat) = MAX_CHATS
  /\ \E i \in 1..Len(voiceDedupeByChat) :
       Len(voiceDedupeByChat[i].lru) = MAX_FINGERPRINTS_PER_CHAT

\* The fingerprint map of the chat the last call named.
LastChatLru ==
  LruOf(voiceDedupeByChat, ChatKey(dedupeLast.accountId, dedupeLast.chatId))

\* C37: after a shouldDedupe call at time now on a chat, that chat's fingerprint
\* map holds no entry with now - ts > windowMs.
C37_NoExpiredEntryAfterCall ==
  dedupeLast.called =>
    \A i \in 1..Len(LastChatLru) :
      dedupeLast.now - LastChatLru[i].ts <= DEFAULT_WINDOW_MS

\* C38: once a fingerprint has been recorded for a chat at time t, a call for
\* it later than t + windowMs returns false, whether or not duplicate hits came
\* in between.
C38_HitDoesNotExtendWindow ==
  (dedupeLast.called /\ dedupeLast.lapsed) => ~dedupeLast.result

\* C38 witness: a fingerprint was recorded, hit as a duplicate inside the
\* window, and the call after the window has passed returned false.
C38_Witness ==
  /\ dedupeLast.called
  /\ dedupeLast.lapsed
  /\ dedupeLast.hitSince
  /\ dedupePrev.result
  /\ dedupePrev.fingerprint = dedupeLast.fingerprint
  /\ ~dedupeLast.result

(***************************************************************************)
(* Gateway: readiness phases (readiness.ts)                                *)
(***************************************************************************)

GatewayReadinessPhases == {"starting", "listening", "ready", "error"}
\* Entries of `phases` explored, and how far the clock runs.
MaxPhases == 4
MaxReadinessNow == 2

ReadinessInit ==
  /\ readinessNow = 0
  /\ readiness = [phase |-> "starting", since |-> 0,
                  phases |-> <<[phase |-> "starting", at |-> 0]>>]

\* The snapshot after markGatewayReadinessPhase(phase) at time now.
ReadinessAfterMark(snapshot, phase, now) ==
  IF snapshot.phase = phase THEN snapshot
  ELSE [phase |-> phase, since |-> now,
        phases |-> Append(snapshot.phases, [phase |-> phase, at |-> now])]

markGatewayReadinessPhase(phase) ==
  /\ Len(readiness.phases) < MaxPhases \/ readiness.phase = phase
  /\ readiness' = ReadinessAfterMark(readiness, phase, readinessNow)
  /\ UNCHANGED readinessNow
  /\ UNCHANGED outsideReadiness

ReadinessClockTicks ==
  /\ readinessNow < MaxReadinessNow
  /\ readinessNow' = readinessNow + 1
  /\ UNCHANGED readiness
  /\ UNCHANGED outsideReadiness

ReadinessNext ==
  \/ \E phase \in GatewayReadinessPhases : markGatewayReadinessPhase(phase)
  \/ ReadinessClockTicks

\* C17: in every readiness snapshot the phase values of `phases` after the
\* first entry are pairwise distinct: no phase is appended a second time.
C17_PhasesDistinct ==
  \A i, j \in 2..Len(readiness.phases) :
    i # j => readiness.phases[i].phase # readiness.phases[j].phase

(***************************************************************************)
(* Super-Kanban reconciler (reconciler.ts)                                 *)
(***************************************************************************)

\* Transcript files listed, and transcript lines read in one run.
MaxRecFiles == 2
MaxRecEvents == 5

ReconcileModes == {"dry-run", "fix"}
\* What the listing yields next: nothing more, a file dropped by a filter, a
\* session without an SK binding, or a bound session.
RecFiles == {"none", "filtered", "unbound", "bound"}
\* What the transcript yields next: its end, a message, a tool call, or a line
\* that gives no event to record (unparsable, no SK role, no toolCallId).
RecEvents == {"eof", "message", "toolCall", "skipped"}

NoCounts == [messages |-> 0, toolCalls |-> 0]

ReconcilerInit ==
  /\ recMode = "dry-run"
  /\ recPc = "idle"
  /\ recFile = 0
  /\ recLine = 0
  /\ recAttached = FALSE
  /\ recPending = "none"
  /\ recCounts = NoCounts
  /\ recReport = [sessionsMatched |-> 0, sessionsSkippedNoBinding |-> 0,
                  sessionsSkippedByFilter |-> 0, totals |-> NoCounts]
  /\ recHttp = <<>>
  /\ recSeen = [sessionsMatched |-> 0, totals |-> NoCounts]

\* counts.messages += 1 / counts.toolCalls += 1
Counted(counts, ev) ==
  IF ev = "message" THEN [counts EXCEPT !.messages = @ + 1]
  ELSE [counts EXCEPT !.toolCalls = @ + 1]

\* postJson for the session being reconciled: the attach path, or the path the
\* event's record is posted to.
AttachPost(session) == [session |-> session, path |-> "attach"]
RecordPost(session, ev) ==
  [session |-> session, path |-> IF ev = "message" THEN "messages" ELSE "tool-calls"]

\* Faulty variant of AttachPosts: the mode is not looked at.
AttachPostsInAnyMode(attached, mode) == ~attached

\* Faulty variant of AttachPosts: the attached flag is not looked at.
AttachPostsForEveryEvent(attached, mode) == ~(mode # "fix")

\* attach(): if (attached || params.mode !== "fix") return
AttachPosts(attached, mode) == ~(attached \/ mode # "fix")

\* reconcileSuperKanban is called.
ReconcileStart(mode) ==
  /\ recPc = "idle"
  /\ recMode' = mode
  /\ recPc' = "files"
  /\ UNCHANGED <<recFile, recLine, recAttached, recPending, recCounts, recReport,
                 recHttp, recSeen>>
  /\ UNCHANGED outsideReconciler

\* The loop over the listed files takes the next file up to reconcileOneSession,
\* or ends.
ReconcileNextFile(file) ==
  /\ recPc = "files"
  /\ file # "none" => recFile < MaxRecFiles
  /\ CASE file = "none" ->
            /\ recPc' = "done"
            /\ UNCHANGED <<recFile, recReport, recSeen>>
       [] file = "filtered" ->
            /\ recReport' = [recReport EXCEPT !.sessionsSkippedByFilter = @ + 1]
            /\ recFile' = recFile + 1
            /\ UNCHANGED <<recPc, recSeen>>
       [] file = "unbound" ->
            /\ recReport' = [recReport EXCEPT !.sessionsSkippedNoBinding = @ + 1]
            /\ recFile' = recFile + 1
            /\ UNCHANGED <<recPc, recSeen>>
       [] file = "bound" ->
            /\ recPc' = "lines"
            /\ recFile' = recFile + 1
            /\ recSeen' = [recSeen EXCEPT !.sessionsMatched = @ + 1]
            /\ UNCHANGED recReport
  /\ recAttached' = FALSE
  /\ recCounts' = NoCounts
  /\ UNCHANGED <<recMode, recLine, recPending, recHttp>>
  /\ UNCHANGED outsideReconciler

\* reconcileOneSession reads on: at the end of the transcript the session's
\* report is added to the totals; an event is attached for and posted in fix
\* mode, and counted at once in dry-run.
ReconcileReadLine(ev) ==
  /\ recPc = "lines"
  /\ ev # "eof" => recLine < MaxRecEvents
  /\ CASE ev = "eof" ->
            /\ recReport' = [recReport EXCEPT
                               !.sessionsMatched = @ + 1,
                               !.totals = [messages |-> @.messages + recCounts.messages,
                                           toolCalls |-> @.toolCalls + recCounts.toolCalls]]
            /\ recPc' = "files"
            /\ UNCHANGED <<recLine, recPending, recCounts, recHttp, recSeen>>
       [] ev = "skipped" ->
            /\ recLine' = recLine + 1
            /\ UNCHANGED <<recPc, recPending, recCounts, recReport, recHttp, recSeen>>
       [] ev \in {"message", "toolCall"} ->
            /\ recSeen' = [recSeen EXCEPT !.totals = Counted(@, ev)]
            /\ IF AttachPosts(recAttached, recMode)
               THEN /\ recHttp' = Append(recHttp, AttachPost(recFile))
                    /\ recPc' = "attach"
                    /\ recPending' = ev
                    /\ UNCHANGED <<recLine, recCounts>>
               ELSE IF recMode = "fix"
               THEN /\ recHttp' = Append(recHttp, RecordPost(recFile, ev))
                    /\ recPc' = "post"
                    /\ recPending' = ev
                    /\ UNCHANGED <<recLine, recCounts>>
               ELSE /\ recCounts' = Counted(recCounts, ev)
                    /\ recLine' = recLine + 1
                    /\ UNCHANGED <<recPc, recPending, recHttp>>
            /\ UNCHANGED recReport
  /\ UNCHANGED <<recMode, recFile, recAttached>>
  /\ UNCHANGED outsideReconciler

\* The attach POST settles: on 2xx the flag is set and the event's record is
\* posted (in fix mode); a failure throws out of the run.
ReconcileAttachReturns(resp) ==
  /\ recPc = "attach"
  /\ IF resp # "ok"
     THEN /\ recPc' = "failed"
          /\ UNCHANGED <<recAttached, recHttp, recCounts, recLine, recPending>>
     ELSE /\ recAttached' = TRUE
          /\ IF recMode = "fix"
             THEN /\ recHttp' = Append(recHttp, RecordPost(recFile, recPending))
                  /\ recPc' = "post"
                  /\ UNCHANGED <<recCounts, recLine, recPending>>
             ELSE /\ recCounts' = Counted(recCounts, recPending)
                  /\ recLine' = recLine + 1
                  /\ recPc' = "lines"
                  /\ recPending' = "none"
                  /\ UNCHANGED recHttp
  /\ UNCHANGED <<recMode, recFile, recReport, recSeen>>
  /\ UNCHANGED outsideReconciler

\* The record POST settles: on 2xx the event is counted; a failure throws.
ReconcilePostReturns(resp) ==
  /\ recPc = "post"
  /\ IF resp # "ok"
     THEN /\ recPc' = "failed"
          /\ UNCHANGED <<recCounts, recLine, recPending>>
     ELSE /\ recCounts' = Counted(recCounts, recPending)
          /\ recLine' = recLine + 1
          /\ recPc' = "lines"
          /\ recPending' = "none"
  /\ UNCHANGED <<recMode, recFile, recAttached, recReport, recHttp, recSeen>>
  /\ UNCHANGED outsideReconciler

ReconcilerNext ==
  \/ \E mode \in ReconcileModes : ReconcileStart(mode)
  \/ \E file \in RecFiles : ReconcileNextFile(file)
  \/ \E ev \in RecEvents : ReconcileReadLine(ev)
  \/ \E resp \in Responses : ReconcileAttachReturns(resp)
  \/ \E resp \in Responses : ReconcilePostReturns(resp)

\* C20: in dry-run mode the reconciler issues no HTTP request at all, and the
\* finished run has counted every message and tool call of every matched
\* session.
C20_DryRunPostsNothing ==
  recMode = "dry-run" =>
    /\ recHttp = <<>>
    /\ recPc \notin {"attach", "post", "failed"}
    /\ recPc = "done" =>
         /\ recReport.sessionsMatched = recSeen.sessionsMatched
         /\ recReport.totals = recSeen.totals

\* C20 witness: a finished dry-run over two matched sessions that held
\* messages and tool calls, with nothing posted.
C20_Witness ==
  /\ recMode = "dry-run"
  /\ recPc = "done"
  /\ recReport.sessionsMatched = 2
  /\ recReport.totals.messages >= 1
  /\ recReport.totals.toolCalls >= 2
  /\ recHttp = <<>>

\* The posts issued for one session, in order.
PostsOf(session) == SelectSeq(recHttp, LAMBDA post : post.session = session)
PathCount(posts, path) == Len(SelectSeq(posts, LAMBDA post : post.path = path))

\* C21: in fix mode every session that yielded an event has exactly one
\* attach, posted before its message and tool-call posts, and between two
\* events the session has issued 1 + messages + tool calls requests; a session
\* without events has issued none.
C21_OneAttachThenRecords ==
  recMode = "fix" =>
    /\ \A session \in 1..recFile :
         PostsOf(session) # <<>> =>
           /\ PostsOf(session)[1].path = "attach"
           /\ PathCount(PostsOf(session), "attach") = 1
    /\ recPc = "lines" =>
         /\ PathCount(PostsOf(recFile), "messages") = recCounts.messages
         /\ PathCount(PostsOf(recFile), "tool-calls") = recCounts.toolCalls
         /\ Len(PostsOf(recFile)) =
              IF recCounts = NoCounts THEN 0
              ELSE 1 + recCounts.messages + recCounts.toolCalls
    /\ recPc = "done" =>
         Len(recHttp) = Cardinality({recHttp[i].session : i \in DOMAIN recHttp})
                        + recReport.totals.messages + recReport.totals.toolCalls

\* C21 witness: a finished fix run whose one matched session held three
\* messages and two tool calls and was sent six requests.
C21_Witness ==
  /\ recMode = "fix"
  /\ recPc = "done"
  /\ recReport.sessionsMatched = 1
  /\ recReport.totals = [messages |-> 3, toolCalls |-> 2]
  /\ Len(recHttp) = 6
  /\ recHttp[1].path = "attach"

(***************************************************************************)
(* Reconciler: hashed-label resolution (reconciler.ts)                     *)
(***************************************************************************)

\* Items a label-map.json found on disk holds, and candidates one transcript
\* prefix yields.
MaxFileItems == 1
MaxCandidates == 2

\* Task external ids, and sha256(externalId) in hex cut to 16 digits.
HashedTaskIds == {"task:p:w:t1", "task:p:w:t2", "task:p:w:t3"}
sha256HexPrefix(value) ==
  CASE value = "task:p:w:t1" -> "aa"
    [] value = "task:p:w:t2" -> "bb"
    [] value = "task:p:w:t3" -> "cc"

\* The hex digits a label or a file item can carry: the pattern of
\* parseSkRoutingLabel takes either case.
LabelHexes == {"aa", "AA", "bb"}
toLowerCase(hex) == IF hex = "AA" THEN "aa" ELSE hex

\* parseSkRoutingLabel, the taskHash kind
TaskHashLabel(hex) == "SK:TASKH:" \o hex
parseSkRoutingLabel(hex) == [label |-> TaskHashLabel(hex), hash |-> toLowerCase(hex)]

\* Any item that normalizeLabelMapItems keeps: three strings.
LabelMapItems ==
  [externalId : HashedTaskIds, label : {TaskHashLabel(hex) : hex \in LabelHexes},
   hash : LabelHexes]

RECURSIVE SeqsUpTo(_, _)
SeqsUpTo(S, n) ==
  IF n = 0 THEN {<<>>}
  ELSE SeqsUpTo(S, n - 1) \cup
       {Append(q, x) : q \in {r \in SeqsUpTo(S, n - 1) : Len(r) = n - 1}, x \in S}

NoBinding == [hex |-> Null, externalId |-> Null, via |-> Null]

LabelMapInit ==
  /\ labelMapFile = <<>>
  /\ lastBinding = NoBinding

\* loadLabelMap: the items of the file, hashes in lower case
loadLabelMap(file) == [i \in DOMAIN file |-> [file[i] EXCEPT !.hash = toLowerCase(@)]]

\* items.find(...): the place of the first item that passes, or 0
FindFirst(items, Test(_)) ==
  IF \E i \in DOMAIN items : Test(items[i])
  THEN CHOOSE i \in DOMAIN items : Test(items[i]) /\ \A j \in 1..(i - 1) : ~Test(items[j])
  ELSE 0

\* appendLabelMapEntry: the file after the call
appendLabelMapEntry(file, externalId, label, hash) ==
  LET items == loadLabelMap(file)
      lower == toLowerCase(hash)
  IN IF \E i \in DOMAIN items :
          items[i].hash = lower \/ items[i].label = label \/ items[i].externalId = externalId
     THEN file
     ELSE Append(items, [externalId |-> externalId, label |-> label, hash |-> lower])

\* resolveTaskExternalIdFromHash: the external id returned (or Null), how it was
\* found, and the file afterwards
resolveTaskExternalIdFromHash(file, label, hash, candidates, allowWriteLabelMap) ==
  LET items == loadLabelMap(file)
      hit == FindFirst(items, LAMBDA it : it.hash = hash \/ it.label = label)
      found == FindFirst(candidates,
                         LAMBDA candidate : toLowerCase(sha256HexPrefix(candidate)) = toLowerCase(hash))
  IN IF hit # 0
     THEN [externalId |-> items[hit].externalId, via |-> "label-map", file |-> file]
     ELSE IF found # 0
     THEN [externalId |-> candidates[found], via |-> "scan",
           file |-> IF allowWriteLabelMap
                    THEN appendLabelMapEntry(file, candidates[found], label, hash)
                    ELSE file]
     ELSE [externalId |-> Null, via |-> Null, file |-> file]

\* resolveSessionBinding for a session labelled SK:TASKH:<hex>, whose transcript
\* prefix yields the candidates.
ResolveSessionBinding(hex, candidates, allowWriteLabelMap) ==
  LET parsed == parseSkRoutingLabel(hex)
      res == resolveTaskExternalIdFromHash(labelMapFile, parsed.label, parsed.hash,
                                           candidates, allowWriteLabelMap)
  IN /\ labelMapFile' = res.file
     /\ lastBinding' = [hex |-> hex, externalId |-> res.externalId, via |-> res.via]
     /\ UNCHANGED outsideLabelMap

LabelMapNext ==
  \E hex \in LabelHexes, candidates \in SeqsUpTo(HashedTaskIds, MaxCandidates),
     allowWriteLabelMap \in BOOLEAN :
    ResolveSessionBinding(hex, candidates, allowWriteLabelMap)

\* C22: whenever a SK:TASKH:<h> label is resolved to an external id, from the
\* label map or from the transcript scan, the first 16 hex digits of the
\* sha256 of that id are h (hex digits compared without regard to case).
C22_ResolvedIdHashesToLabel ==
  lastBinding.externalId # Null =>
    sha256HexPrefix(lastBinding.externalId) = toLowerCase(lastBinding.hex)

(***************************************************************************)
(* SK-Sync: canonicalizeWorkItemExternalId over any input                  *)
(***************************************************************************)

\* The longest input, in segments between colons.
MaxSegments == 3

\* The trimmed input split at ":"; <<"">> is the input that trims to nothing.
IdSegments == {"", "workitem", "pA", "pB", "W1"}
RawIds == SeqsUpTo(IdSegments, MaxSegments) \ {<<>>}
\* Keys that canonicalizeProjectExternalId returns.
ProjectKeys == {"pA", "pB"}

NoCanonCall == [input |-> <<>>, projectKey |-> "", result |-> CanonFailed]

CanonInit == canonCall = NoCanonCall

\* canonicalizeWorkItemExternalId(input, projectKey) is called.
CanonicalizeWorkItem(input, projectKey) ==
  /\ canonCall' = [input |-> input, projectKey |-> projectKey,
                   result |-> canonicalizeWorkItemExternalId(input, projectKey)]
  /\ UNCHANGED outsideCanon

CanonNext ==
  \E input \in RawIds, projectKey \in ProjectKeys : CanonicalizeWorkItem(input, projectKey)

\* x contains a colon; x reads workitem:<projectKey>:<workItemKey>.
HasColon(segs) == Len(segs) >= 2
MatchesWorkItem(segs, projectKey) ==
  /\ Len(segs) = 3
  /\ segs[1] = "workitem"
  /\ segs[2] = projectKey
  /\ segs[3] # ""

\* The call returned the canonical form of its input.
ReturnedCanonical(call) ==
  /\ call.result.ok
  /\ call.result.key = call.input[Len(call.input)]
  /\ call.result.externalId = <<"workitem", call.projectKey, call.result.key>>

\* C23 as stated: the call fails if and only if x contains a colon and does not
\* match workitem:<projectKey>:<workItemKey>, and otherwise returns the
\* canonical form.
C23_FailsIffColonAndNoMatch ==
  canonCall # NoCanonCall =>
    IF HasColon(canonCall.input) /\ ~MatchesWorkItem(canonCall.input, canonCall.projectKey)
    THEN ~canonCall.result.ok
    ELSE ReturnedCanonical(canonCall)

\* C23 amended: the call fails if and only if x is empty after trimming, or
\* contains a colon and does not match workitem:<projectKey>:<workItemKey>;
\* otherwise it returns the canonical form.
C23_FailsIffEmptyOrColonAndNoMatch ==
  canonCall # NoCanonCall =>
    IF \/ canonCall.input = <<"">>
       \/ HasColon(canonCall.input) /\ ~MatchesWorkItem(canonCall.input, canonCall.projectKey)
    THEN ~canonCall.result.ok
    ELSE ReturnedCanonical(canonCall)

\* C23 witness: a canonical work-item id of another project was refused.
C23_Witness ==
  /\ canonCall.input = <<"workitem", "pB", "W1">>
  /\ canonCall.projectKey = "pA"
  /\ ~canonCall.result.ok

(***************************************************************************)
(* Telegram delivery context (part_002)                                    *)
(***************************************************************************)

\* Nesting of run() calls, and ids newTelegramDeliveryId hands out.
MaxDepth == 2
MaxUuids == 2

\* A deliveryId: none, one the caller supplies, or the n-th random UUID.
NoId == [kind |-> "undefined", n |-> 0]
SuppliedId == [kind |-> "supplied", n |-> 1]
Uuid(n) == [kind |-> "uuid", n |-> n]

\* Partial<TelegramDeliveryContext>
Partials ==
  [deliveryId : {NoId, SuppliedId}, accountId : {Undefined, "acc"},
   chatId : {Undefined, "123"}, operation : {Undefined, "sendVoice"}]
\* TelegramDeliveryContext: the deliveryId is there.
Contexts == {ctx \in Partials : ctx.deliveryId # NoId}

\* What current?.field reads when getStore() returns undefined.
NoStore ==
  [deliveryId |-> NoId, accountId |-> Undefined, chatId |-> Undefined,
   operation |-> Undefined]
NoWith == [called |-> FALSE, partial |-> NoStore, generated |-> FALSE]

DeliveryInit ==
  /\ alsStack = <<>>
  /\ uuidCount = 0
  /\ lastWith = NoWith

\* telegramDeliveryAls.getStore(), read through ?.
getStore(stack) == IF stack = <<>> THEN NoStore ELSE stack[Len(stack)]

\* a ?? b
Coalesce(a, b, missing) == IF a # missing THEN a ELSE b

\* Faulty variant of ContextWith: the current deliveryId is not inherited.
ContextWithoutInheritedId(partial, current, fresh) ==
  [deliveryId |-> Coalesce(partial.deliveryId, fresh, NoId),
   accountId |-> Coalesce(partial.accountId, current.accountId, Undefined),
   chatId |-> Coalesce(partial.chatId, current.chatId, Undefined),
   operation |-> Coalesce(partial.operation, current.operation, Undefined)]

\* The store withTelegramDeliveryContext binds.
ContextWith(partial, current, fresh) ==
  [deliveryId |-> Coalesce(partial.deliveryId,
                           Coalesce(current.deliveryId, fresh, NoId), NoId),
   accountId |-> Coalesce(partial.accountId, current.accountId, Undefined),
   chatId |-> Coalesce(partial.chatId, current.chatId, Undefined),
   operation |-> Coalesce(partial.operation, current.operation, Undefined)]

\* runWithTelegramDeliveryContext(ctx, fn): fn starts under ctx.
RunWith(ctx) ==
  /\ Len(alsStack) < MaxDepth
  /\ alsStack' = Append(alsStack, ctx)
  /\ lastWith' = NoWith
  /\ UNCHANGED uuidCount
  /\ UNCHANGED outsideDelivery

\* withTelegramDeliveryContext(partial, fn): fn starts under the store built
\* from partial and the current store; newTelegramDeliveryId is called only
\* when the ?? chain reaches it.
WithPartial(partial) ==
  LET current == getStore(alsStack)
      ctx == ContextWith(partial, current, Uuid(uuidCount + 1))
      generated == ctx.deliveryId = Uuid(uuidCount + 1)
  IN /\ Len(alsStack) < MaxDepth
     /\ generated => uuidCount < MaxUuids
     /\ alsStack' = Append(alsStack, ctx)
     /\ uuidCount' = IF generated THEN uuidCount + 1 ELSE uuidCount
     /\ lastWith' = [called |-> TRUE, partial |-> partial, generated |-> generated]
     /\ UNCHANGED outsideDelivery

\* fn settles: the store of the enclosing run() is current again.
FnSettles ==
  /\ alsStack # <<>>
  /\ alsStack' = SubSeq(alsStack, 1, Len(alsStack) - 1)
  /\ lastWith' = NoWith
  /\ UNCHANGED uuidCount
  /\ UNCHANGED outsideDelivery

DeliveryNext ==
  \/ \E ctx \in Contexts : RunWith(ctx)
  \/ \E partial \in Partials : WithPartial(partial)
  \/ FnSettles

\* The store the last withTelegramDeliveryContext call found, and the one fn
\* runs under.
StoreBeforeWith == getStore(SubSeq(alsStack, 1, Len(alsStack) - 1))
StoreOfFn == getStore(alsStack)

\* fn's store holds the current store's fields overlaid by partial.
OtherFieldsOverlaid ==
  /\ StoreOfFn.accountId =
       Coalesce(lastWith.partial.accountId, StoreBeforeWith.accountId, Undefined)
  /\ StoreOfFn.chatId =
       Coalesce(lastWith.partial.chatId, StoreBeforeWith.chatId, Undefined)
  /\ StoreOfFn.operation =
       Coalesce(lastWith.partial.operation, StoreBeforeWith.operation, Undefined)

\* fn's deliveryId is the id generated by this call.
IdIsNew == lastWith.generated /\ StoreOfFn.deliveryId = Uuid(uuidCount)

\* C24 as stated: fn runs under the current context's fields overlaid by
\* partial, and its deliveryId is newly generated if and only if partial
\* supplies no deliveryId.
C24_NewIdIffPartialHasNone ==
  lastWith.called =>
    /\ OtherFieldsOverlaid
    /\ IdIsNew <=> lastWith.partial.deliveryId = NoId

\* C24 amended: fn runs under the current context's fields, deliveryId
\* included, overlaid by partial, and its deliveryId is newly generated if and
\* only if neither partial nor the current context supplies one.
C24_NewIdIffNoneToInherit ==
  lastWith.called =>
    /\ OtherFieldsOverlaid
    /\ IdIsNew <=>
         (lastWith.partial.deliveryId = NoId /\ StoreBeforeWith.deliveryId = NoId)
    /\ ~IdIsNew =>
         StoreOfFn.deliveryId =
           Coalesce(lastWith.partial.deliveryId, StoreBeforeWith.deliveryId, NoId)

\* C24 witness: inside a context, a call whose partial names only the
\* operation ran fn under the enclosing deliveryId and account.
C24_Witness ==
  /\ lastWith.called
  /\ lastWith.partial.deliveryId = NoId
  /\ lastWith.partial.operation = "sendVoice"
  /\ lastWith.partial.accountId = Undefined
  /\ Len(alsStack) = 2
  /\ StoreOfFn.deliveryId = StoreBeforeWith.deliveryId
  /\ StoreOfFn.accountId = "acc"

(***************************************************************************)
(* Super-Kanban exporter: readAppendedJsonlLines (service.ts)              *)
(*                                                                         *)
(* Sizes are scaled: a read fills a buffer of ChunkBytes (64 KiB in the    *)
(* code) and a remainder longer than DropLimit (2 MiB, 32 buffers) is      *)
(* given up.  A line is kept as the offsets of its bytes, so a returned    *)
(* line tells which part of the file it came from.                         *)
(***************************************************************************)

ChunkBytes == 2
DropLimit == 4
\* maxLines of one read, and lines the agent writes.
MaxLinesPerRead == 3
MaxTailLines == 3

\* Payload lengths of the lines written: short ones, and DropLimit + 1.
LineLengths == {1, 2, DropLimit + 1}

TailInit ==
  /\ tailFile = <<>>
  /\ tailCursor = 0
  /\ tailLines = <<>>

Newlines(file) == {i \in DOMAIN file : file[i] = "nl"}

\* The 0-based offsets from..(to - 1).
Offsets(from, to) == [i \in 1..(to - from) |-> from + i - 1]

Min(a, b) == IF a < b THEN a ELSE b

RECURSIVE SplitLines(_, _, _, _, _)
\* The inner loop over one combined buffer (a sequence of offsets): lines are
\* cut at each newline from start on until maxLines are held; blank lines are
\* not kept.  Gives the lines and the buffer index after the last newline used.
SplitLines(file, combined, start, lines, maxLines) ==
  LET nls == {k \in (start + 1)..Len(combined) : file[combined[k] + 1] = "nl"}
  IN IF Len(lines) >= maxLines \/ nls = {}
     THEN [lines |-> lines, start |-> start]
     ELSE LET nl == CHOOSE k \in nls : \A j \in nls : k <= j
              line == SubSeq(combined, start + 1, nl - 1)
          IN SplitLines(file, combined, nl,
                        IF line # <<>> THEN Append(lines, line) ELSE lines, maxLines)

\* if (remainder.length > 2 MiB) remainder = Buffer.alloc(0)
RemainderKept(remainder) == IF Len(remainder) > DropLimit THEN <<>> ELSE remainder

RECURSIVE ReadChunks(_, _, _, _, _, _, _)
\* The outer loop: read a buffer at cursor, split it, carry the remainder.
ReadChunks(file, offset, cursor, remainder, advanced, lines, maxLines) ==
  IF ~(cursor < Len(file) /\ Len(lines) < maxLines)
  THEN [lines |-> lines, nextOffset |-> offset + advanced]
  ELSE LET bytesRead == Min(ChunkBytes, Len(file) - cursor)
           combined == remainder \o Offsets(cursor, cursor + bytesRead)
           split == SplitLines(file, combined, 0, lines, maxLines)
           consumed == split.start
       IN ReadChunks(file, offset, cursor + bytesRead,
                     RemainderKept(SubSeq(combined, consumed + 1, Len(combined))),
                     advanced + consumed, split.lines, maxLines)

readAppendedJsonlLines(file, offset, maxLines) ==
  IF offset >= Len(file)
  THEN [lines |-> <<>>, nextOffset |-> offset]
  ELSE ReadChunks(file, offset, offset, <<>>, 0, <<>>, maxLines)

\* The agent writes one more line to the transcript.
TailAppend(length) ==
  /\ Cardinality(Newlines(tailFile)) < MaxTailLines
  /\ tailFile' = tailFile \o [i \in 1..length |-> "x"] \o <<"nl">>
  /\ UNCHANGED <<tailCursor, tailLines>>
  /\ UNCHANGED outsideTail

\* scanAndEnqueue reads the file from its cursor and moves the cursor to
\* nextOffset; the lines go on to the parser.
TailScan ==
  LET res == readAppendedJsonlLines(tailFile, tailCursor, MaxLinesPerRead)
  IN /\ tailCursor < Len(tailFile)
     /\ tailCursor' = res.nextOffset
     /\ tailLines' = tailLines \o res.lines
     /\ UNCHANGED tailFile
     /\ UNCHANGED outsideTail

TailNext ==
  \/ \E length \in LineLengths : TailAppend(length)
  \/ TailScan

\* The lines of the file, each as the offsets of its payload; the offset after
\* each line's newline.
FileLines(file) ==
  {Offsets(IF \E m \in Newlines(file) : m < nl
           THEN (CHOOSE m \in Newlines(file) :
                   m < nl /\ \A k \in Newlines(file) : k < nl => k <= m)
           ELSE 0,
           nl - 1) : nl \in Newlines(file)}
LineStarts(file) == {0} \cup Newlines(file)
Oversized(line) == Len(line) > DropLimit
TimesReturned(line) == Cardinality({i \in DOMAIN tailLines : tailLines[i] = line})

\* C27: a transcript line one byte over the limit is dropped: nothing is
\* returned from it, whole or in part, the cursor moves past its newline (it
\* always rests on the start of a line), and the well-formed lines are returned
\* exactly once: never twice, and once when the cursor has reached the end.
C27_OversizedLineDropped ==
  /\ \A i \in DOMAIN tailLines :
       tailLines[i] \in FileLines(tailFile) /\ ~Oversized(tailLines[i])
  /\ tailCursor \in LineStarts(tailFile)
  /\ \A line \in FileLines(tailFile) :
       ~Oversized(line) =>
         /\ TimesReturned(line) <= 1
         /\ tailCursor = Len(tailFile) => TimesReturned(line) = 1

\* Every component but the exporter and the label map, whose starting files vary.
InitComponents ==
  /\ TailInit
  /\ DeliveryInit
  /\ WakeInit /\ SkInit /\ SpawnInit /\ HookInit
  /\ WsInit /\ DedupeInit /\ ReadinessInit /\ ReconcilerInit /\ CanonInit

Init == InitComponents /\ ExporterInit /\ LabelMapInit

\* The tracker alone, driven by arbitrary trackSpawn / handleSubagentEnded calls.
SpecWake == Init /\ [][WakeNext]_vars

\* One spawn tool invocation against Super-Kanban, and the lifecycle hooks of the
\* sessions involved, in any interleaving.
\* The ids do not reach the hooks: alongside them the tool is invoked with
\* canonical ids only.
SkSyncNext ==
  \/ SpawnStarts({<<"project", "pA">>}, {Given(<<"workitem", "pA", "W1">>)},
                 {Given(<<"task", "pA", "W1", "T1">>)})
  \/ SpawnContinues
  \/ HookNext

\* The components that stand alone start beside an idle SK-Sync and exporter.
InitStandalone == Init /\ taskLock = Null

\* The hooks beside one WORKER spawn that a session requests for a task nobody
\* holds, with wakeParentOnEnd left at its default: the child is tracked, the
\* requesting session is not.  subagent_ended reports the child's run without a
\* requester in its context; agent_end comes for either session.
HooksNext ==
  \/ SpawnStart("WORKER", "parent-1", Undefined, <<"project", "pA">>,
                Given(<<"workitem", "pA", "W1">>), Given(<<"task", "pA", "W1", "T1">>))
  \/ \E resp \in Responses : UpsertProjectReturns(resp)
  \/ \E resp \in Responses : UpsertWorkItemReturns(resp)
  \/ \E resp \in Responses : UpsertTaskReturns(resp)
  \/ \E resp \in LockResponses : LockTaskReturns(resp)
  \/ \E status \in SpawnStatuses, runId \in {SpawnedRun, Null} :
       SessionsSpawnReturns(status, runId)
  \/ \E resp \in Responses : UnlockAfterRefusedReturns(resp)
  \/ \E resp \in Responses : AttachChildReturns(resp)
  \/ \E h \in HookSlots, k \in HookSessionKeys, o \in HookOutcomes : AgentEnd(h, k, o)
  \/ \E h \in HookSlots, o \in HookOutcomes :
       SubagentEnded(h, ChildSessionKeyOf(SpawnedRun), o, Null, SpawnedRun)
  \/ \E h \in HookSlots, resp \in Responses : ResolveReturns(h, resp)
  \/ \E h \in HookSlots, resp \in Responses : CloseAttachReturns(h, resp)
  \/ \E h \in HookSlots, resp \in Responses : ClosePatchReturns(h, resp)
  \/ \E h \in HookSlots, resp \in Responses : CloseUnlockReturns(h, resp)
  \/ \E h \in HookSlots, ok \in BOOLEAN : HookWakeSettles(h, ok)

SpecHooks == InitStandalone /\ [][HooksNext]_vars

SpecSpawn == Init /\ [][SpawnNext]_vars

SpecSkSync == Init /\ [][SkSyncNext]_vars

\* The exporter service between start() and the end of stop().
InitExporter ==
  /\ InitComponents
  /\ LabelMapInit
  /\ taskLock = Null
  /\ \E spoolLeft \in SpoolsLeft, bound \in BOOLEAN : ExporterInitWith(spoolLeft, bound)

SpecExporter == InitExporter /\ [][ExporterNext]_vars

\* The exporter beside a session that has no label at first and may be given one.
InitUnlabelled ==
  /\ InitComponents
  /\ LabelMapInit
  /\ taskLock = Null
  /\ ExporterInitWith(<<>>, FALSE)

\* Scans may overlap; no sender tick outlasts its interval.
UnlabelledNext ==
  \/ SessionLabelled
  \/ TranscriptAppend
  \/ BackoffElapses
  \/ \E s \in ScanSlots : ScanStart(s)
  \/ \E s \in ScanSlots, statOk \in BOOLEAN : ScanStatReturns(s, statOk)
  \/ \E s \in ScanSlots : ScanReadReturns(s)
  \/ \E s \in ScanSlots : ScanBindingReturns(s)
  \/ FlushTimerFires
  \/ TimerFlushAppended
  \/ TickStart("t1")
  \/ TickFlushAppended("t1")
  \/ TickReadReturns("t1")
  \/ \E resp \in Responses : TickAttachReturns("t1", resp)
  \/ \E resp \in Responses : TickPostReturns("t1", resp)
  \/ TickStatReturns("t1")
  \/ TickTruncateLands("t1")
  \/ TickTruncated("t1")
  \/ Stop
  \/ StopCompletes

SpecUnlabelled == InitUnlabelled /\ [][UnlabelledNext]_vars

\* The voice-send deduper under any sequence of calls as the clock runs.
SpecDedupe == InitStandalone /\ [][DedupeNext]_vars

\* The deduper with one busy chat (BusyChatNext).
SpecBusyChat == InitStandalone /\ [][BusyChatNext]_vars

\* The gateway's readiness under any sequence of phase marks.
SpecReadiness == InitStandalone /\ [][ReadinessNext]_vars

\* One run of the reconciler over any listing of transcripts, in either mode.
SpecReconciler == InitStandalone /\ [][ReconcilerNext]_vars

\* Hashed-label resolution against whatever label-map.json the state directory
\* holds when the reconciler starts.
InitLabelMap ==
  /\ InitComponents
  /\ ExporterInit
  /\ taskLock = Null
  /\ labelMapFile \in SeqsUpTo(LabelMapItems, MaxFileItems)
  /\ lastBinding = NoBinding

SpecLabelMap == InitLabelMap /\ [][LabelMapNext]_vars

\* The same against a label map that only the reconciler has written.
SpecLabelMapOwned == InitStandalone /\ [][LabelMapNext]_vars

\* canonicalizeWorkItemExternalId called with any input and project key.
SpecCanon == InitStandalone /\ [][CanonNext]_vars

\* Nested delivery contexts of one async call chain.
SpecDelivery == InitStandalone /\ [][DeliveryNext]_vars

\* The tailer's reads of one transcript as the agent writes lines to it.
SpecTail == InitStandalone /\ [][TailNext]_vars

\* One gateway connection's guarded send.
SpecWs == InitStandalone /\ [][WsNext]_vars
====
